---- MODULE Spec2Model ----
(***************************************************************************)
(* The text shell of appleseed (shell.c, kept as src/unnamed/part_003):    *)
(* the per-connection line editor, tokenizer/dispatcher and session loop.  *)
(*                                                                         *)
(* Bytes are their ASCII codes.  A C array is a function over 0..n-1, a    *)
(* C string read from an array is the sequence of codes up to the first    *)
(* NUL.  The whole shell_instance_t is the record sh; one action is one    *)
(* iteration of the while loop of prompt().                                *)
(***************************************************************************)
EXTENDS Integers, Sequences, FiniteSets, TLC

VARIABLES
    sh,         \* shell_instance_t
    head_cmd,   \* shellserver_t.head_cmd: the registry, head first
    shell_cwd,  \* static char shell_cwd[]: the cached working directory
    inject,     \* prompt()'s local "inject"
    file,       \* content of the regular file the file system holds
    fpos,       \* read position of the open redirection file
    fopen,      \* number of file streams currently open
    term,       \* the terminal attached to writef: [row, col]
    rx,         \* bytes the last loop iteration processed
    tx,         \* bytes written to writef by the last loop iteration
    calls,      \* handler invocations made by the last loop iteration
    ev,         \* the branch the last loop iteration took
    typed,      \* the printable bytes received since the line was last empty
    fault,      \* "none", or the undefined behaviour the session ran into
    threads,    \* where each of the concurrent sessions is in its use of shell_cwd
    fs,         \* the files the handlers of fs_cmds.c work on: path -> content
    loop        \* the counter i of prompt() and the for loop it runs, where followed

vars ==
    <<sh, head_cmd, shell_cwd, inject, file, fpos, fopen, term, rx, tx, calls, ev, typed,
      fault, threads, fs, loop>>

----------------------------------------------------------------------------
(* Bounds of the model.  shell.h, which sets the three SHELL_ sizes, is not *)
(* among the sources: each specification fixes the build's buffer size.    *)

SHELL_CMD_BUFFER_SIZE == 4
LINE_BUFFER_SIZE == 12
SHELL_HISTORY_LENGTH == 2
SHELL_MAX_ARGS == 4
MaxLineLen == 4
TERM_WIDTH == 6
SHELL_CWD_LENGTH_MAX == 3

----------------------------------------------------------------------------
(* Bytes the code names.                                                    *)

NUL == 0
LF == 10
CR == 13
ESC == 27
SPACE == 32
DQUOTE == 34
SQUOTE == 39
BACKTICK == 96
BACKSPACE == 127
CSI == 91
SS3 == 79
KEY_3 == 51
KEY_TILDE == 126
KEY_UP == 65
KEY_DOWN == 66
KEY_RIGHT == 67
KEY_LEFT == 68
KEY_HOME == 72
KEY_END == 70

U8(x) == x % 256
U16(x) == x % 65536
S8(x) == ((x + 128) % 256) - 128

(* Strings of shell.h written to the terminal. *)
SHELL_LEFTARROW == <<27, 91, 68>>
SHELL_RIGHTARROW == <<27, 91, 67>>
SHELL_NEWLINE == <<13, 10>>
SHELL_ROOT_PROMPT == <<35>>
SHELL_PROMPT == <<36>>
SHELL_DRIVE == <<>>
SHELL_NO_SUCH_COMMAND == <<63, 58>>
SHELL_HELP_STR == <<72>>

----------------------------------------------------------------------------
(* C strings and arrays.                                                    *)

NULLP == -1

sizeof(arr) == Cardinality(DOMAIN arr)

RECURSIVE strlen_from(_, _)
strlen_from(arr, i) ==
    IF i \notin DOMAIN arr \/ arr[i] = NUL THEN 0 ELSE 1 + strlen_from(arr, i + 1)

(* the string a char* into arr denotes *)
CStr(arr, p) == [k \in 1..strlen_from(arr, p) |-> arr[p + k - 1]]

(* a scan that leaves the array before it meets a NUL reads foreign memory *)
Unterminated(arr, p) == p + strlen_from(arr, p) \notin DOMAIN arr

(* an array of n cells, indexed from 0, every cell holding v *)
Filled(n, v) == [i \in 0..(IF n <= 1 THEN 0 ELSE n - 1) |-> v]

ZeroArray(n) == Filled(n, NUL)

(* strncpy(dst, src, n): copies up to the NUL of src, pads dst[..n-1] with NUL *)
RECURSIVE CopyLoop(_, _, _, _)
CopyLoop(dst, src, i, n) ==
    IF i >= n THEN dst
    ELSE CopyLoop([dst EXCEPT ![i] = IF i < strlen_from(src, 0) THEN src[i] ELSE NUL],
                  src, i + 1, n)

strncpy(dst, src, n) == CopyLoop(dst, src, 0, n)

(* strncmp(a, b, n) = 0, a and b given as the strings the pointers denote *)
strncmp_eq(a, b, n) ==
    LET la == IF Len(a) < n THEN Len(a) ELSE n
        lb == IF Len(b) < n THEN Len(b) ELSE n
    IN la = lb /\ \A k \in 1..la : a[k] = b[k]

----------------------------------------------------------------------------
(* One loop iteration works on a context k: the instance, the bytes written *)
(* so far, and the process state the iteration touches.                     *)

Peek(arr, i) == IF i \in DOMAIN arr THEN arr[i] ELSE NUL

Emit(k, bytes) == [k EXCEPT !.out = @ \o bytes]

(* input_buffer[i] = v; a store outside the array is undefined behaviour *)
SetBuf(k, i, v) ==
    IF i \in DOMAIN k.sh.input_buffer
    THEN [k EXCEPT !.sh.input_buffer[i] = v]
    ELSE [k EXCEPT !.fault = "oob_write"]

PromptText(cwd) ==
    IF Len(cwd) > 0 THEN SHELL_DRIVE \o cwd \o SHELL_PROMPT ELSE SHELL_ROOT_PROMPT

(* put_prompt(sh, argstr, newline); argstr is input_buffer or NULL *)
put_prompt(k, witharg, newline) ==
    Emit(k, <<CR>> \o (IF newline THEN <<LF>> ELSE <<>>) \o PromptText(k.cwd)
            \o (IF witharg THEN CStr(k.sh.input_buffer, 0) ELSE <<>>))

(* for(i = input_index; i > cursor_index; i--) write(SHELL_LEFTARROW) *)
RECURSIVE LeftLoop(_, _)
LeftLoop(k, i) ==
    IF i > k.sh.cursor_index THEN LeftLoop(Emit(k, SHELL_LEFTARROW), U8(i - 1)) ELSE k

CursorBack(k) == LeftLoop(k, U8(k.sh.input_index))

(* ShiftRight that moves no byte *)
ShiftRightSkipped(k, i) == k

(* for(i = input_index; i > cursor_index; i--) input_buffer[i] = input_buffer[i-1] *)
RECURSIVE ShiftRight(_, _)
ShiftRight(k, i) ==
    IF i > k.sh.cursor_index
    THEN ShiftRight(SetBuf(k, i, Peek(k.sh.input_buffer, i - 1)), U8(i - 1))
    ELSE k

(* for(i = cursor_index; i < input_index; i++) input_buffer[i] = input_buffer[i+1] *)
(* i is an unsigned char: when the increment brings it back to the value the *)
(* loop started with, the condition has held for every value of i and the    *)
(* loop does not end                                                         *)
RECURSIVE ShiftLeft(_, _)
ShiftLeft(k, i) ==
    IF i < k.sh.input_index
    THEN LET k1 == SetBuf(k, i, Peek(k.sh.input_buffer, i + 1))
         IN IF U8(i + 1) = U8(k.sh.cursor_index)
            THEN [k1 EXCEPT !.fault = "endless_loop"]
            ELSE ShiftLeft(k1, U8(i + 1))
    ELSE k

(* HasRoom with the bound one too high *)
HasRoomOffByOne(s) == s.input_index < sizeof(s.input_buffer)

(* the buffer has room for one more byte and its terminator *)
HasRoom(s) == s.input_index < sizeof(s.input_buffer) - 1

(* OverflowReset without the reset of the two indices *)
OverflowResetKeepsIndices(k, data) == SetBuf([k EXCEPT !.ev = "overflow"], 0, data)

(* the overflow branch: the new byte restarts the line *)
OverflowReset(k, data) ==
    SetBuf([k EXCEPT !.sh.input_index = 1, !.sh.cursor_index = 1, !.ev = "overflow"],
           0, data)

(* InsertAtCursor without the advance of the cursor *)
InsertAtCursorNoAdvance(k, data) ==
    LET k1 == ShiftRight(k, U8(k.sh.input_index))
        k2 == SetBuf(k1, k1.sh.cursor_index, data)
    IN [k2 EXCEPT !.sh.input_index = U16(@ + 1), !.ev = "insert"]

(* the insert branch: shift the tail right and store the byte at the cursor *)
InsertAtCursor(k, data) ==
    LET k1 == ShiftRight(k, U8(k.sh.input_index))
        k2 == SetBuf(k1, k1.sh.cursor_index, data)
    IN [k2 EXCEPT !.sh.cursor_index = U16(@ + 1),
                  !.sh.input_index = U16(@ + 1),
                  !.ev = "insert"]

(* write(&input_buffer[cursor_index-1], strlen(...)) *)
EchoTail(k) == Emit(k, CStr(k.sh.input_buffer, k.sh.cursor_index - 1))

(* the "all others" branch for a byte >= ' ' *)
Printable(k, data) ==
    LET k1 == IF HasRoom(k.sh) THEN InsertAtCursor(k, data) ELSE OverflowReset(k, data)
        k2 == SetBuf(k1, k1.sh.input_index, NUL)
        k3 == IF k2.sh.input_index = 0 THEN put_prompt(k2, FALSE, TRUE) ELSE k2
    IN CursorBack(EchoTail(k3))

(* the redraw shared by BACKSPACE and DELETE, after the indices moved *)
RemoveAtCursor(k) ==
    LET k1 == ShiftLeft(k, U8(k.sh.cursor_index))
        k2 == SetBuf(k1, k1.sh.input_index, SPACE)
        k3 == SetBuf(k2, k2.sh.input_index + 1, NUL)
        k4 == put_prompt(k3, TRUE, FALSE)
        k5 == SetBuf(k4, k4.sh.input_index, NUL)
        k6 == put_prompt(k5, TRUE, FALSE)
    IN IF k1.fault = "endless_loop" THEN k1 ELSE CursorBack(k6)

BackspaceGuard(s) == s.cursor_index > 0

(* Backspace without the decrement of the cursor *)
BackspaceCursorStays(k) ==
    IF BackspaceGuard(k.sh)
    THEN RemoveAtCursor([k EXCEPT !.sh.input_index = U16(@ - 1), !.ev = "backspace"])
    ELSE [k EXCEPT !.ev = "backspace_none"]

(* the BACKSPACE branch: both indices step back, the tail moves left *)
Backspace(k) ==
    IF BackspaceGuard(k.sh)
    THEN RemoveAtCursor([k EXCEPT !.sh.input_index = U16(@ - 1),
                                  !.sh.cursor_index = U16(@ - 1),
                                  !.ev = "backspace"])
    ELSE [k EXCEPT !.ev = "backspace_none"]

(* cursor_index < input_index *)
DeleteGuard(s) == s.cursor_index < s.input_index

(* Delete that also steps the cursor back *)
DeleteMovesCursor(k) ==
    IF k.sh.cursor_index < k.sh.input_index
    THEN RemoveAtCursor([k EXCEPT !.sh.input_index = U16(@ - 1),
                                  !.sh.cursor_index = IF @ > 0 THEN U16(@ - 1) ELSE @,
                                  !.ev = "delete"])
    ELSE [k EXCEPT !.ev = "delete_none"]

(* the DELETE branch: the end of input steps back, the tail moves left *)
Delete(k) ==
    IF DeleteGuard(k.sh)
    THEN RemoveAtCursor([k EXCEPT !.sh.input_index = U16(@ - 1), !.ev = "delete"])
    ELSE [k EXCEPT !.ev = "delete_none"]

LeftGuard(s) == s.cursor_index > 0

Left(k) ==
    IF LeftGuard(k.sh)
    THEN Emit([k EXCEPT !.sh.cursor_index = U16(@ - 1), !.ev = "left"], SHELL_LEFTARROW)
    ELSE [k EXCEPT !.ev = "left_none"]

(* RightGuard comparing with <= *)
RightGuardInclusive(s) == s.cursor_index <= s.input_index

RightGuard(s) == s.cursor_index < s.input_index

Right(k) ==
    IF RightGuard(k.sh)
    THEN Emit([k EXCEPT !.sh.cursor_index = U16(@ + 1), !.ev = "right"], SHELL_RIGHTARROW)
    ELSE [k EXCEPT !.ev = "right_none"]

(* while(cursor_index > 0) { write(SHELL_LEFTARROW); cursor_index--; } *)
RECURSIVE HomeLoop(_)
HomeLoop(k) ==
    IF k.sh.cursor_index > 0
    THEN HomeLoop([Emit(k, SHELL_LEFTARROW) EXCEPT !.sh.cursor_index = U16(@ - 1)])
    ELSE k

Home(k) == HomeLoop([k EXCEPT !.ev = "home"])

(* while(cursor_index < input_index) { write(SHELL_RIGHTARROW); cursor_index++; } *)
RECURSIVE EndLoop(_)
EndLoop(k) ==
    IF k.sh.cursor_index < k.sh.input_index
    THEN EndLoop([Emit(k, SHELL_RIGHTARROW) EXCEPT !.sh.cursor_index = U16(@ + 1)])
    ELSE k

End(k) == EndLoop([k EXCEPT !.ev = "end"])

(* while(input_buffer[input_index]) { input_buffer[input_index] = ' '; input_index++; } *)
RECURSIVE BlankLoop(_)
BlankLoop(k) ==
    IF Peek(k.sh.input_buffer, k.sh.input_index) # NUL
    THEN BlankLoop([SetBuf(k, k.sh.input_index, SPACE) EXCEPT !.sh.input_index = U16(@ + 1)])
    ELSE k

(* clear_prompt: blank the buffer up to its terminator and draw the blanks *)
clear_prompt(k) ==
    LET k1 == BlankLoop([k EXCEPT !.sh.input_index = 0, !.sh.cursor_index = 0,
                                  !.fault = IF Unterminated(k.sh.input_buffer, 0)
                                            THEN "oob_write" ELSE @])
    IN put_prompt([k1 EXCEPT !.sh.input_index = 0], TRUE, FALSE)

(* HistoryInRange that leaves out the last slot of the ring *)
HistoryInRangeExcludesLast(i) == i >= 0 /\ i < SHELL_HISTORY_LENGTH - 1

(* history_index >= 0 && history_index < SHELL_HISTORY_LENGTH *)
HistoryInRange(i) == i >= 0 /\ i < SHELL_HISTORY_LENGTH

(* historic_prompt *)
historic_prompt(k) ==
    IF HistoryInRange(k.sh.history_index)
    THEN IF k.sh.history[k.sh.history_index][0] # NUL
         THEN LET k1 == clear_prompt(k)
                  nb == strncpy(k1.sh.input_buffer, k1.sh.history[k1.sh.history_index],
                                sizeof(k1.sh.input_buffer) - 1)
                  l == strlen_from(nb, 0)
              IN put_prompt([k1 EXCEPT !.sh.input_buffer = nb,
                                       !.sh.input_index = l,
                                       !.sh.cursor_index = l], TRUE, FALSE)
         ELSE k
    ELSE LET k1 == clear_prompt(k)
             k2 == SetBuf([k1 EXCEPT !.sh.input_index = 0, !.sh.cursor_index = 0], 0, NUL)
         IN put_prompt(k2, FALSE, FALSE)

(* UpIndex that wraps to the first slot of the ring *)
UpIndexWrapsToZero(i) == IF S8(i - 1) < 0 THEN 0 ELSE S8(i - 1)

(* sh->history_index--; below 0 it becomes SHELL_HISTORY_LENGTH-1 *)
UpIndex(i) == IF S8(i - 1) < 0 THEN SHELL_HISTORY_LENGTH - 1 ELSE S8(i - 1)

Up(k) == historic_prompt([k EXCEPT !.sh.history_index = UpIndex(@), !.ev = "up"])

Down(k) == historic_prompt([k EXCEPT !.sh.history_index = -1, !.ev = "down"])

----------------------------------------------------------------------------
(* The file system and the connection, as far as the session sees them.     *)

READ_FAILS == -1

(* What the peer and the system can do in a specification: the bytes, or a  *)
(* result <= 0, a read() of the connection can deliver first in an          *)
(* iteration; what the reads after an ESC can deliver; what getcwd() can    *)
(* report; the st_size stat() can report for a directory.                   *)
ControlBytes == {LF, BACKSPACE, ESC, 1}

KeyTails ==
    { <<CSI, KEY_3, KEY_TILDE>>, <<CSI, KEY_UP, 97>>, <<CSI, KEY_DOWN, 97>>,
      <<CSI, KEY_LEFT, 97>>, <<CSI, KEY_RIGHT, 97>>, <<SS3, KEY_HOME, 97>>,
      <<SS3, KEY_END, 97>> }

SessionEnv ==
    [inputs |-> {97} \cup ControlBytes \cup {READ_FAILS}, tails |-> KeyTails,
     cwds |-> {<<>>}, dirsizes |-> {0}]

(* the peer of an editing session: two letters and the editing keys *)
(* bytes after ESC that continue no sequence the ESC branch knows: after ESC, *)
(* after ESC '[', after ESC '[' '3' and after ESC 'O'                       *)
SwallowedTails ==
    { <<97, 97, 97>>, <<CSI, 97, 97>>, <<CSI, KEY_3, 97>>, <<SS3, 97, 97>> }

EditEnv ==
    [inputs |-> {97, 98} \cup (ControlBytes \ {LF}),
     tails |-> KeyTails \cup SwallowedTails,
     cwds |-> {<<>>}, dirsizes |-> {0}]

(* the peer of a session whose display is watched: one letter and the keys *)
ScreenEnv ==
    [inputs |-> {97} \cup (ControlBytes \ {LF}), tails |-> KeyTails,
     cwds |-> {<<>>}, dirsizes |-> {0}]

(* the peer of a session whose line is typed: it sends the NEWLINE *)
LineEnv ==
    [inputs |-> {LF}, tails |-> {}, cwds |-> {<<>>}, dirsizes |-> {0}]

FILE_PATH == <<97, 97>>
DIR_PATH == <<97, 97, 97>>

(* contents the regular file may have; a session runs against one of them *)
FileContents == { <<97, 97, LF, 97>> }

(* stat(path, &sstat): the results it can have; ok is "returned 0" *)
StatResults(path, dirsizes) ==
    IF path = FILE_PATH
    THEN {[ok |-> TRUE, st_mode |-> "S_IFREG", st_size |-> Len(file)]}
    ELSE IF path = DIR_PATH
    THEN {[ok |-> TRUE, st_mode |-> "S_IFDIR", st_size |-> n] : n \in dirsizes}
         \cup {[ok |-> FALSE, st_mode |-> "0", st_size |-> 0]}
    ELSE {[ok |-> FALSE, st_mode |-> "0", st_size |-> 0]}

(* A read through a null pointer is undefined: a hosted build traps; on the  *)
(* target address 0 is the first word of the vector table, the initial      *)
(* stack pointer, whose low byte is 0, so the read sees an empty string.    *)
NULL_STRING == <<>>

(* the status codes a handler can return *)
Codes == {"SHELL_CMD_KILL", "SHELL_CMD_CHDIR", "SHELL_CMD_PRINT_CMDS",
          "SHELL_CMD_PRINT_USAGE", "SHELL_CMD_EXIT"}

(* read(sh->readf, &data, 1): [ok, data, k]; c is what the connection delivers *)
Read(k, c) ==
    IF k.sh.readf = "connfd"
    THEN [ok |-> c # READ_FAILS, data |-> IF c # READ_FAILS THEN c ELSE NUL, k |-> k]
    ELSE IF k.sh.readf = "filefd" /\ k.fpos < Len(file)
    THEN [ok |-> TRUE, data |-> file[k.fpos + 1], k |-> [k EXCEPT !.fpos = @ + 1]]
    ELSE [ok |-> FALSE, data |-> NUL, k |-> k]

(* the end-of-file check made after every byte while st_size is set *)
EofCheck(k, data, trap) ==
    IF k.sh.sstat.st_size = 0 THEN k
    ELSE IF ~k.sh.readfs
    THEN (IF trap THEN [k EXCEPT !.fault = "ftell_null", !.ev = "fault"] ELSE k)
    ELSE IF k.fpos = k.sh.sstat.st_size
    THEN [k EXCEPT !.fopen = @ - 1,
                   !.sh.readfs = FALSE,
                   !.sh.readf = k.sh.savereadf,
                   !.sh.sstat = [st_size |-> 0, st_mode |-> "0"],
                   !.inject = IF data # LF THEN LF ELSE @]
    ELSE k

(* the head of one loop iteration: [stop, data, k] *)
Fetch(k, c, trap) ==
    IF k.inject = NUL
    THEN LET r == Read(k, c)
         IN IF ~r.ok
            THEN [stop |-> TRUE, data |-> NUL,
                  k |-> [k EXCEPT !.sh.exitflag = TRUE, !.ev = "read_end"]]
            ELSE LET k1 == EofCheck([r.k EXCEPT !.rx = <<r.data>>], r.data, trap)
                 IN [stop |-> k1.fault # "none", data |-> r.data, k |-> k1]
    ELSE LET k1 == EofCheck([k EXCEPT !.inject = NUL, !.rx = <<k.inject>>], k.inject, trap)
         IN [stop |-> k1.fault # "none", data |-> k.inject, k |-> k1]

(* data = 0; read(sh->readf, &data, 1): a read inside the ESC branch *)
ReadTail(k, c) ==
    LET r == Read(k, c)
    IN [r EXCEPT !.k.rx = IF r.ok THEN Append(@, r.data) ELSE @]

(* Escape that takes the byte after ESC as an ordinary byte when it opens   *)
(* no sequence                                                              *)
EscapeKeepsByte(k, tail) ==
    LET r1 == ReadTail(k, tail[1])
        r2 == ReadTail(r1.k, tail[2])
        r3 == ReadTail(r2.k, tail[3])
    IN IF r1.data = CSI
       THEN IF r2.data = KEY_3
            THEN IF r3.data = KEY_TILDE THEN Delete(r3.k)
                 ELSE [r3.k EXCEPT !.ev = "esc_swallowed"]
            ELSE IF r2.data = KEY_UP THEN Up(r2.k)
            ELSE IF r2.data = KEY_DOWN THEN Down(r2.k)
            ELSE IF r2.data = KEY_LEFT THEN Left(r2.k)
            ELSE IF r2.data = KEY_RIGHT THEN Right(r2.k)
            ELSE [r2.k EXCEPT !.ev = "esc_swallowed"]
       ELSE IF r1.data = SS3
       THEN IF r2.data = KEY_HOME THEN Home(r2.k)
            ELSE IF r2.data = KEY_END THEN End(r2.k)
            ELSE [r2.k EXCEPT !.ev = "esc_swallowed"]
       ELSE IF r1.data >= SPACE THEN Printable(r1.k, r1.data)
       ELSE [r1.k EXCEPT !.ev = "esc_swallowed"]

(* the ESC branch: up to three more reads decode the sequence *)
Escape(k, tail) ==
    LET r1 == ReadTail(k, tail[1])
        r2 == ReadTail(r1.k, tail[2])
        r3 == ReadTail(r2.k, tail[3])
    IN IF r1.data = CSI
       THEN IF r2.data = KEY_3
            THEN IF r3.data = KEY_TILDE THEN Delete(r3.k)
                 ELSE [r3.k EXCEPT !.ev = "esc_swallowed"]
            ELSE IF r2.data = KEY_UP THEN Up(r2.k)
            ELSE IF r2.data = KEY_DOWN THEN Down(r2.k)
            ELSE IF r2.data = KEY_LEFT THEN Left(r2.k)
            ELSE IF r2.data = KEY_RIGHT THEN Right(r2.k)
            ELSE [r2.k EXCEPT !.ev = "esc_swallowed"]
       ELSE IF r1.data = SS3
       THEN IF r2.data = KEY_HOME THEN Home(r2.k)
            ELSE IF r2.data = KEY_END THEN End(r2.k)
            ELSE [r2.k EXCEPT !.ev = "esc_swallowed"]
       ELSE [r1.k EXCEPT !.ev = "esc_swallowed"]

----------------------------------------------------------------------------
(* The command registry.                                                    *)

Descriptor(name, func) == [name |-> name, usage |-> <<85>> \o name, cmdfunc |-> func]

(* register_command linking the new descriptor at the tail *)
register_commandAtTail(reg, cmd) == reg \o <<cmd>>

(* register_command: the new descriptor becomes the head *)
register_command(reg, cmd) == <<cmd>> \o reg

RECURSIVE RegisterAll(_, _)
RegisterAll(reg, cmds) ==
    IF cmds = <<>> THEN reg
    ELSE RegisterAll(register_command(reg, Head(cmds)), Tail(cmds))

----------------------------------------------------------------------------
(* parse_input                                                              *)

IsQuote(b) == b = BACKTICK \/ b = SQUOTE \/ b = DQUOTE

RECURSIVE SkipSpaces(_, _)
SkipSpaces(buf, i) == IF Peek(buf, i) = SPACE THEN SkipSpaces(buf, i + 1) ELSE i

RECURSIVE ScanTo(_, _, _)
ScanTo(buf, i, delimiter) ==
    IF Peek(buf, i) = NUL \/ Peek(buf, i) = delimiter THEN i
    ELSE ScanTo(buf, i + 1, delimiter)

(* ClosingDelimiter forgetting the quote that opened the token *)
ClosingDelimiterAlwaysSpace(b) == SPACE

(* the delimiter that closes a token opening at byte b *)
ClosingDelimiter(b) == IF IsQuote(b) THEN b ELSE SPACE

(* where the text of a token opening at i starts *)
TokenStart(buf, i) == IF IsQuote(buf[i]) THEN i + 1 ELSE i

(* TokenLoop without the break at SHELL_MAX_ARGS *)
RECURSIVE TokenLoopNoLimit(_)
TokenLoopNoLimit(t) ==
    IF Peek(t.buf, t.iter) = NUL THEN t
    ELSE LET i1 == SkipSpaces(t.buf, t.iter)
         IN IF Peek(t.buf, i1) = NUL THEN t
            ELSE LET i2 == TokenStart(t.buf, i1)
                     t1 == [t EXCEPT !.args = IF t.nargs \in DOMAIN @
                                               THEN [@ EXCEPT ![t.nargs] = i2] ELSE @,
                                     !.nargs = @ + 1]
                     i3 == ScanTo(t.buf, i2, ClosingDelimiter(t.buf[i1]))
                 IN IF Peek(t.buf, i3) # NUL
                    THEN TokenLoopNoLimit([t1 EXCEPT !.buf[i3] = NUL, !.iter = i3 + 1])
                    ELSE TokenLoopNoLimit([t1 EXCEPT !.iter = i3])

(* the tokenizing while loop; t = [buf, iter, args, nargs] *)
RECURSIVE TokenLoop(_)
TokenLoop(t) ==
    IF Peek(t.buf, t.iter) = NUL THEN t
    ELSE LET i1 == SkipSpaces(t.buf, t.iter)
         IN IF Peek(t.buf, i1) = NUL THEN t
            ELSE LET i2 == TokenStart(t.buf, i1)
                     t1 == [t EXCEPT !.args[t.nargs] = i2, !.nargs = @ + 1]
                 IN IF t1.nargs >= SHELL_MAX_ARGS THEN t1
                    ELSE LET i3 == ScanTo(t.buf, i2, ClosingDelimiter(t.buf[i1]))
                         IN IF Peek(t.buf, i3) # NUL
                            THEN TokenLoop([t1 EXCEPT !.buf[i3] = NUL, !.iter = i3 + 1])
                            ELSE TokenLoop([t1 EXCEPT !.iter = i3])

Tokenize(buf) ==
    TokenLoop([buf |-> buf, iter |-> 0, nargs |-> 0,
               args |-> Filled(SHELL_MAX_ARGS, NULLP)])

(* SaveHistory without the test for an empty line *)
SaveHistoryAlways(s) ==
    [s EXCEPT !.history[s.history_save_index] =
                  strncpy(s.history[s.history_save_index], s.input_buffer,
                          sizeof(s.history[s.history_save_index]) - 1),
              !.history_save_index =
                  IF U8(@ + 1) >= SHELL_HISTORY_LENGTH THEN 0 ELSE U8(@ + 1)]

(* the history save: a non-empty line goes to the slot at the write cursor *)
SaveHistory(s) ==
    IF s.input_buffer[0] # NUL
    THEN [s EXCEPT !.history[s.history_save_index] =
                       strncpy(s.history[s.history_save_index], s.input_buffer,
                               sizeof(s.history[s.history_save_index]) - 1),
                   !.history_save_index =
                       IF U8(@ + 1) >= SHELL_HISTORY_LENGTH THEN 0 ELSE U8(@ + 1)]
    ELSE s

(* the walk along the list: the first descriptor whose name compares equal, 0 if none *)
RECURSIVE FirstMatch(_, _, _, _)
FirstMatch(reg, i, arg0, n) ==
    IF i > Len(reg) THEN 0
    ELSE IF strncmp_eq(arg0, reg[i].name, n) THEN i
    ELSE FirstMatch(reg, i + 1, arg0, n)

(* the strings current_command.args[from .. from+n-1] denote *)
ArgStrings(s, from, n) ==
    [j \in 1..n |->
        IF from + j - 1 \in DOMAIN s.current_command.args
           /\ s.current_command.args[from + j - 1] # NULLP
        THEN CStr(s.input_buffer, s.current_command.args[from + j - 1])
        ELSE <<>>]

(* MatchedNargs without the decrement *)
MatchedNargsKept(nargs) == nargs

(* cmd->nargs--: the first argument is just the command *)
MatchedNargs(nargs) == U16(nargs - 1)

(* parse_input saving the line after the tokenizer cut it up *)
parse_inputSavesTokens(k, trap) ==
    LET s0 == [k.sh EXCEPT !.current_command.cmd = 0]
    IN IF s0.head_cmd = <<>> THEN [k EXCEPT !.sh = s0]
       ELSE LET s1 == [s0 EXCEPT !.input_buffer[sizeof(s0.input_buffer) - 1] = NUL]
                t == Tokenize(s1.input_buffer)
                s2 == SaveHistory([s1 EXCEPT !.input_buffer = t.buf])
                s3 == [s2 EXCEPT !.current_command.args = t.args,
                                 !.current_command.nargs = t.nargs]
                absent == t.args[0] = NULLP
                arg0 == IF absent THEN NULL_STRING ELSE CStr(t.buf, t.args[0])
                m == FirstMatch(s3.head_cmd, 1, arg0, sizeof(s3.input_buffer) - 1)
            IN IF absent /\ trap
               THEN [k EXCEPT !.sh = s3, !.fault = "strncmp_null", !.ev = "fault"]
               ELSE IF m # 0
               THEN Emit([k EXCEPT !.sh = [s3 EXCEPT !.current_command.cmd = m,
                                                     !.current_command.nargs = MatchedNargs(@)]],
                         SHELL_NEWLINE)
               ELSE [k EXCEPT !.sh = s3]

parse_input(k, trap) ==
    LET s0 == [k.sh EXCEPT !.current_command.cmd = 0]
    IN IF s0.head_cmd = <<>> THEN [k EXCEPT !.sh = s0]
       ELSE LET s1 == [s0 EXCEPT !.input_buffer[sizeof(s0.input_buffer) - 1] = NUL]
                s2 == SaveHistory(s1)
                t == Tokenize(s2.input_buffer)
                s3 == [s2 EXCEPT !.input_buffer = t.buf,
                                 !.current_command.args = t.args,
                                 !.current_command.nargs = t.nargs]
                absent == t.args[0] = NULLP
                arg0 == IF absent THEN NULL_STRING ELSE CStr(t.buf, t.args[0])
                m == FirstMatch(s3.head_cmd, 1, arg0, sizeof(s3.input_buffer) - 1)
            IN IF absent /\ trap
               THEN [k EXCEPT !.sh = s3, !.fault = "strncmp_null", !.ev = "fault"]
               ELSE IF m # 0
               THEN Emit([k EXCEPT !.sh = [s3 EXCEPT !.current_command.cmd = m,
                                                     !.current_command.nargs = MatchedNargs(@)]],
                         SHELL_NEWLINE)
               ELSE [k EXCEPT !.sh = s3]

----------------------------------------------------------------------------
(* The NEWLINE branch of prompt().                                          *)

(* shell_cmd_exec(cmd, fdes, args, nargs): calls cmd->cmdfunc(fdes, args,  *)
(* nargs) and returns its status, code; args is the index of the first slot *)
(* the handler sees                                                         *)
shell_cmd_exec(k, cmd, args, nargs, code) ==
    LET n == U8(nargs)
    IN [k EXCEPT !.calls = Append(@, [cmdfunc |-> k.sh.head_cmd[cmd].cmdfunc,
                                      nargs |-> n,
                                      args |-> ArgStrings(k.sh, args, n),
                                      code |-> code])]

(* PrintNames that stops after the head of the registry *)
PrintNamesHeadOnly(k, i) ==
    IF i > Len(k.sh.head_cmd) THEN k
    ELSE Emit(k, SHELL_NEWLINE \o k.sh.head_cmd[i].name)

(* while(head): write SHELL_NEWLINE and head->name; head = head->next *)
RECURSIVE PrintNames(_, _)
PrintNames(k, i) ==
    IF i > Len(k.sh.head_cmd) THEN k
    ELSE PrintNames(Emit(k, SHELL_NEWLINE \o k.sh.head_cmd[i].name), i + 1)

(* cmd_usage: writes the usage text of the command *)
cmd_usage(k, cmd) == Emit(k, k.sh.head_cmd[cmd].usage)

(* shell_builtins without the case of SHELL_CMD_KILL *)
shell_builtinsKillIgnored(k, code, cmd, getcwd) ==
    CASE code = "SHELL_CMD_CHDIR" -> [k EXCEPT !.cwd = getcwd]
      [] code = "SHELL_CMD_PRINT_CMDS" -> PrintNames(Emit(k, SHELL_HELP_STR), 1)
      [] code = "SHELL_CMD_PRINT_USAGE" -> cmd_usage(k, cmd)
      [] OTHER -> k

shell_builtins(k, code, cmd, getcwd) ==
    CASE code = "SHELL_CMD_KILL" -> [k EXCEPT !.sh.exitflag = TRUE]
      [] code = "SHELL_CMD_CHDIR" -> [k EXCEPT !.cwd = getcwd]
      [] code = "SHELL_CMD_PRINT_CMDS" -> PrintNames(Emit(k, SHELL_HELP_STR), 1)
      [] code = "SHELL_CMD_PRINT_USAGE" -> cmd_usage(k, cmd)
      [] OTHER -> k

(* Finalize that also gives up the history selection *)
FinalizeResetsSelection(k, trap) ==
    parse_input(SetBuf([k EXCEPT !.sh.history_index = -1], k.sh.input_index, NUL), trap)

(* input_buffer[input_index] = '\0'; parse_input(sh, &sh->current_command) *)
Finalize(k, trap) == parse_input(SetBuf(k, k.sh.input_index, NUL), trap)

(* the tail of the branch: indices reset and a fresh prompt *)
FreshPrompt(k) ==
    put_prompt([k EXCEPT !.sh.input_index = 0, !.sh.cursor_index = 0], FALSE, TRUE)

(* a command matched: run it and act on its status code *)
RunCommand(k, code, getcwd) ==
    LET cc == k.sh.current_command
    IN FreshPrompt(shell_builtins(
           shell_cmd_exec([k EXCEPT !.ev = "command"], cc.cmd, 1, cc.nargs, code),
           code, cc.cmd, getcwd))

(* StatTaken without the test that no redirection is active *)
StatTakenWhileRedirected(k, st) == st.ok

(* the second condition of the branch: no redirection active and stat() succeeds *)
StatTaken(k, st) == k.sh.sstat.st_size = 0 /\ st.ok

(* the stat branch: sstat holds the result; a non-empty regular file is opened *)
Redirect(k, st, openok) ==
    LET k1 == [k EXCEPT !.sh.sstat = [st_size |-> st.st_size, st_mode |-> st.st_mode]]
    IN FreshPrompt(
        IF st.st_mode = "S_IFREG" /\ st.st_size # 0
        THEN IF openok
             THEN [k1 EXCEPT !.sh.savereadf = k.sh.readf,
                             !.sh.readf = "filefd",
                             !.sh.readfs = TRUE,
                             !.fpos = 0,
                             !.fopen = @ + 1,
                             !.ev = "redirect"]
             ELSE [k1 EXCEPT !.sh.savereadf = k.sh.readf,
                             !.sh.sstat = [st_size |-> 0, st_mode |-> "0"],
                             !.ev = "open_failed"]
        ELSE [k1 EXCEPT !.ev = "stat_other"])

(* the last condition of the branch: args[0] is set *)
Unknown(k) ==
    FreshPrompt(
        IF k.sh.current_command.args[0] # NULLP
        THEN Emit([k EXCEPT !.ev = "unknown"],
                  SHELL_NO_SUCH_COMMAND \o CStr(k.sh.input_buffer, k.sh.current_command.args[0]))
        ELSE [k EXCEPT !.ev = "no_args"])

----------------------------------------------------------------------------
(* The terminal at the other end of writef: one row of cells and a cursor   *)
(* column.  CR returns to column 0, LF starts an empty row, ESC [ D and     *)
(* ESC [ C move the cursor, any other byte is put at the cursor.  A         *)
(* specification that does not watch the display leaves it detached.       *)

Cell(row, c) == IF c + 1 \in DOMAIN row THEN row[c + 1] ELSE SPACE

(* a byte put at or beyond the last column of the terminal is not shown *)
PutCell(row, c, b) ==
    IF c >= TERM_WIDTH THEN row
    ELSE [j \in 1..(IF c + 1 > Len(row) THEN c + 1 ELSE Len(row)) |->
            IF j = c + 1 THEN b ELSE Cell(row, j - 1)]

NextCol(c) == IF c >= TERM_WIDTH THEN c ELSE c + 1

RECURSIVE TrimRow(_)
TrimRow(row) ==
    IF row # <<>> /\ row[Len(row)] = SPACE THEN TrimRow(SubSeq(row, 1, Len(row) - 1))
    ELSE row

(* the byte sequence pat stands at position i of bytes *)
HasAt(bytes, i, pat) ==
    i + Len(pat) - 1 <= Len(bytes) /\ \A j \in 1..Len(pat) : bytes[i + j - 1] = pat[j]

RECURSIVE Display(_, _, _)
Display(t, bytes, i) ==
    IF ~t.attached THEN t
    ELSE IF i > Len(bytes) THEN [t EXCEPT !.row = TrimRow(@)]
    ELSE IF bytes[i] = CR THEN Display([t EXCEPT !.col = 0], bytes, i + 1)
    ELSE IF bytes[i] = LF THEN Display([t EXCEPT !.row = <<>>], bytes, i + 1)
    ELSE IF HasAt(bytes, i, SHELL_LEFTARROW)
    THEN Display([t EXCEPT !.col = IF @ > 0 THEN @ - 1 ELSE 0], bytes, i + 3)
    ELSE IF HasAt(bytes, i, SHELL_RIGHTARROW)
    THEN Display([t EXCEPT !.col = NextCol(@)], bytes, i + 3)
    ELSE Display([t EXCEPT !.row = PutCell(@, t.col, bytes[i]), !.col = NextCol(@)],
                 bytes, i + 1)

----------------------------------------------------------------------------
(* The session.                                                             *)

(* shell_instance_thread: calloc and the field initialisation *)
(* NewInstance whose history index selects the first slot *)
NewInstanceSlotSelected(size, head) ==
    [ input_buffer |-> ZeroArray(size),
      history |-> Filled(SHELL_HISTORY_LENGTH, ZeroArray(size)),
      cursor_index |-> 0,
      input_index |-> 0,
      history_index |-> 0,
      history_save_index |-> 0,
      head_cmd |-> head,
      exitflag |-> FALSE,
      readfs |-> FALSE,
      readf |-> "connfd",
      savereadf |-> "-1",
      writef |-> "connfd",
      sstat |-> [st_size |-> 0, st_mode |-> "0"],
      current_command |-> [cmd |-> 0, nargs |-> 0,
                           args |-> Filled(SHELL_MAX_ARGS, NULLP)] ]

NewInstance(size, head) ==
    [ input_buffer |-> ZeroArray(size),
      history |-> Filled(SHELL_HISTORY_LENGTH, ZeroArray(size)),
      cursor_index |-> 0,
      input_index |-> 0,
      history_index |-> -1,
      history_save_index |-> 0,
      head_cmd |-> head,
      exitflag |-> FALSE,
      readfs |-> FALSE,
      readf |-> "connfd",
      savereadf |-> "-1",
      writef |-> "connfd",
      sstat |-> [st_size |-> 0, st_mode |-> "0"],
      current_command |-> [cmd |-> 0, nargs |-> 0,
                           args |-> Filled(SHELL_MAX_ARGS, NULLP)] ]

(* the context of the first loop iteration of a session *)
Fresh(size, head, cwd, watched) ==
    [sh |-> NewInstance(size, head), out |-> <<>>, cwd |-> cwd, inject |-> NUL,
     fpos |-> 0, fopen |-> 0, fault |-> "none", calls |-> <<>>, ev |-> "start",
     rx |-> <<>>, typed |-> [pure |-> TRUE, log |-> <<>>],
     term |-> [attached |-> watched, row |-> <<>>, col |-> 0]]

(* what a loop iteration starts from: nothing processed, nothing written *)
Begin(k) == [k EXCEPT !.out = <<>>, !.calls = <<>>, !.ev = "none", !.rx = <<>>]

(* The record of the typed line: it restarts whenever the line is empty     *)
(* after an iteration, grows by each printable byte received, and is given  *)
(* up at any other byte or once it is longer than the buffer.               *)
Track(k) ==
    IF k.sh.input_index = 0 THEN [pure |-> TRUE, log |-> <<>>]
    ELSE IF /\ k.typed.pure
            /\ Len(k.rx) = 1 /\ k.rx[1] >= SPACE /\ k.rx[1] # BACKSPACE
            /\ Len(k.typed.log) < sizeof(k.sh.input_buffer)
    THEN [pure |-> TRUE, log |-> Append(k.typed.log, k.rx[1])]
    ELSE [pure |-> FALSE, log |-> <<>>]

(* the end of a loop iteration: the terminal has shown what was written *)
Shown(k) == [k EXCEPT !.term = Display(@, k.out, 1), !.typed = Track(k)]

(* The iterations of a peer typing keys, printable bytes and NEWLINEs of    *)
(* lines that name neither a command nor a file.                            *)
TypeKey(k, key) ==
    LET k0 == [Begin(k) EXCEPT !.rx = <<key>>]
    IN Shown(IF key = LF THEN Unknown(Finalize(k0, FALSE)) ELSE Printable(k0, key))

RECURSIVE Replay(_, _)
Replay(k, keys) ==
    IF keys = <<>> THEN k
    ELSE LET k1 == TypeKey(k, Head(keys))
         IN IF k1.fault # "none" THEN k1 ELSE Replay(k1, Tail(keys))

(* unsigned char i = 0, and no for loop of prompt() under way *)
Idle == [pc |-> "idle", i |-> 0, arrows |-> 0]

(* a file system without the files of fs_cmds.c *)
NoFiles == <<>>

(* the session whose next loop iteration starts from context k, the regular  *)
(* file holding one of contents and the file system being one of files     *)
Furnish(k, contents, files) ==
    /\ head_cmd = k.sh.head_cmd
    /\ sh = k.sh
    /\ shell_cwd = k.cwd
    /\ inject = k.inject
    /\ file \in contents
    /\ fpos = k.fpos
    /\ fopen = k.fopen
    /\ term = k.term
    /\ rx = k.rx
    /\ tx = k.out
    /\ calls = k.calls
    /\ ev = k.ev
    /\ typed = k.typed
    /\ fault = k.fault
    /\ threads = <<>>
    /\ fs \in files
    /\ loop = Idle

(* the same where no handler works on files *)
Resume(k, contents) == Furnish(k, contents, {NoFiles})

(* the registries a session of Spec may run against *)
SessionRegistries ==
    { RegisterAll(<<>>, cmds) :
        cmds \in { <<>>, <<Descriptor(<<97>>, "h1")>> } }

Init ==
    \E head \in SessionRegistries, cwd \in SessionEnv.cwds :
        Resume(Fresh(SHELL_CMD_BUFFER_SIZE, head, cwd, FALSE), FileContents)

(* the loop condition of prompt(); a session that trapped runs no further *)
Running == ~sh.exitflag /\ fault = "none"

(* Ctx of a session that looks commands up in the server's list *)
CtxLiveRegistry ==
    Begin([sh |-> [sh EXCEPT !.head_cmd = head_cmd], out |-> tx, cwd |-> shell_cwd,
           inject |-> inject, fpos |-> fpos, fopen |-> fopen, fault |-> fault,
           calls |-> calls, ev |-> ev, rx |-> rx, typed |-> typed, term |-> term])

Ctx ==
    Begin([sh |-> sh, out |-> tx, cwd |-> shell_cwd, inject |-> inject, fpos |-> fpos,
           fopen |-> fopen, fault |-> fault, calls |-> calls, ev |-> ev, rx |-> rx,
           typed |-> typed, term |-> term])

(* the session after the iteration that ended in context k *)
Update(k) ==
    LET d == Shown(k)
    IN /\ sh' = d.sh
       /\ shell_cwd' = d.cwd
       /\ inject' = d.inject
       /\ fpos' = d.fpos
       /\ fopen' = d.fopen
       /\ fault' = d.fault
       /\ rx' = d.rx
       /\ tx' = d.out
       /\ calls' = d.calls
       /\ ev' = d.ev
       /\ typed' = d.typed
       /\ term' = d.term
       /\ UNCHANGED <<head_cmd, file, threads, loop>>

Commit(k) == Update(k) /\ UNCHANGED fs

(* the bytes the connection may deliver to the first read of an iteration, *)
(* out of the set S a specification lets the peer send; when the byte comes *)
(* from inject or from the file the connection is not asked                *)
Offer(S) == IF inject = NUL /\ sh.readf = "connfd" THEN S ELSE {NUL}

(* ftell(NULL) can trap only where the end-of-file check meets no stream *)
FtellTraps == IF sh.sstat.st_size # 0 /\ ~sh.readfs THEN BOOLEAN ELSE {FALSE}

(* read() returned <= 0, or the end-of-file check trapped *)
ReadEnd(E) ==
    /\ Running
    /\ \E c \in Offer(E.inputs \cap {READ_FAILS}) \cup Offer({NUL}), trap \in FtellTraps :
          LET f == Fetch(Ctx, c, trap)
          IN f.stop /\ Commit(f.k)

KeyEscape(E) ==
    /\ Running
    /\ \E c \in Offer(E.inputs \cap {ESC}), trap \in FtellTraps :
          LET f == Fetch(Ctx, c, trap)
          IN /\ ~f.stop /\ f.data = ESC
             /\ \E tail \in E.tails : Commit(Escape(f.k, tail))

KeyBackspace(E) ==
    /\ Running
    /\ \E c \in Offer(E.inputs \cap {BACKSPACE}), trap \in FtellTraps :
          LET f == Fetch(Ctx, c, trap)
          IN ~f.stop /\ f.data = BACKSPACE /\ Commit(Backspace(f.k))

KeyPrintable(E) ==
    /\ Running
    /\ \E c \in Offer({b \in E.inputs : b >= SPACE /\ b # BACKSPACE}), trap \in FtellTraps :
          LET f == Fetch(Ctx, c, trap)
          IN /\ ~f.stop /\ f.data >= SPACE /\ f.data # BACKSPACE
             /\ Commit(Printable(f.k, f.data))

(* a byte below ' ' that is neither ESC nor NEWLINE *)
KeyIgnored(E) ==
    /\ Running
    /\ \E c \in Offer({b \in E.inputs : b >= 0 /\ b < SPACE /\ b # ESC /\ b # LF}),
          trap \in FtellTraps :
          LET f == Fetch(Ctx, c, trap)
          IN /\ ~f.stop /\ f.data < SPACE /\ f.data # ESC /\ f.data # LF
             /\ Commit([f.k EXCEPT !.ev = "ignored"])

(* NEWLINE, and the matching of args[0] trapped on an absent argument *)
NewlineTrap(E) ==
    /\ Running
    /\ \E c \in Offer(E.inputs \cap {LF}), trap \in FtellTraps :
          LET f == Fetch(Ctx, c, trap)
              p == Finalize(f.k, TRUE)
          IN /\ ~f.stop /\ f.data = LF
             /\ p.fault # "none"
             /\ Commit(p)

NewlineCommand(E) ==
    /\ Running
    /\ \E c \in Offer(E.inputs \cap {LF}), trap \in FtellTraps :
          LET f == Fetch(Ctx, c, trap)
              p == Finalize(f.k, FALSE)
          IN /\ ~f.stop /\ f.data = LF
             /\ p.sh.current_command.cmd # 0
             /\ \E code \in Codes :
                  \E getcwd \in IF code = "SHELL_CMD_CHDIR" THEN E.cwds ELSE {shell_cwd} :
                      Commit(RunCommand(p, code, getcwd))

NewlineStat(E) ==
    /\ Running
    /\ \E c \in Offer(E.inputs \cap {LF}), trap \in FtellTraps :
          LET f == Fetch(Ctx, c, trap)
              p == Finalize(f.k, FALSE)
          IN /\ ~f.stop /\ f.data = LF
             /\ p.sh.current_command.cmd = 0
             /\ \E st \in StatResults(CStr(p.sh.input_buffer, 0), E.dirsizes),
                   openok \in BOOLEAN :
                   StatTaken(p, st) /\ Commit(Redirect(p, st, openok))

NewlineUnknown(E) ==
    /\ Running
    /\ \E c \in Offer(E.inputs \cap {LF}), trap \in FtellTraps :
          LET f == Fetch(Ctx, c, trap)
              p == Finalize(f.k, FALSE)
          IN /\ ~f.stop /\ f.data = LF
             /\ p.sh.current_command.cmd = 0
             /\ \E st \in StatResults(CStr(p.sh.input_buffer, 0), E.dirsizes) :
                   ~StatTaken(p, st) /\ Commit(Unknown(p))

Next ==
    \/ ReadEnd(SessionEnv)
    \/ KeyEscape(SessionEnv)
    \/ KeyBackspace(SessionEnv)
    \/ KeyPrintable(SessionEnv)
    \/ KeyIgnored(SessionEnv)
    \/ NewlineTrap(SessionEnv)
    \/ NewlineCommand(SessionEnv)
    \/ NewlineStat(SessionEnv)
    \/ NewlineUnknown(SessionEnv)

Spec == Init /\ [][Next]_vars

----------------------------------------------------------------------------
(* Editing sessions: the peer sends printable bytes and editing keys.  A    *)
(* session starts fresh, or after the lines of EditHistories were typed and *)
(* finalized.                                                               *)

EDIT_REGISTRY == RegisterAll(<<>>, <<Descriptor(<<99>>, "h1")>>)

EditHistories ==
    { <<>>,
      <<97, 98, LF>>,
      <<98, LF, 97, 98, LF, 97, LF>> }

InitEdit ==
    \E keys \in EditHistories :
        Resume(Replay(Fresh(SHELL_CMD_BUFFER_SIZE, EDIT_REGISTRY, <<>>, FALSE), keys),
               FileContents)

NextEdit ==
    \/ KeyEscape(EditEnv)
    \/ KeyBackspace(EditEnv)
    \/ KeyPrintable(EditEnv)
    \/ KeyIgnored(EditEnv)

SpecEdit == InitEdit /\ [][NextEdit]_vars

----------------------------------------------------------------------------
(* Editing sessions whose display is watched.                               *)

ScreenHistories ==
    { <<>>,
      <<97, 97, LF>> }

InitScreen ==
    \E keys \in ScreenHistories :
        Resume(Replay(Fresh(SHELL_CMD_BUFFER_SIZE, EDIT_REGISTRY, <<>>, TRUE), keys),
               FileContents)

NextScreen ==
    \/ KeyEscape(ScreenEnv)
    \/ KeyBackspace(ScreenEnv)
    \/ KeyPrintable(ScreenEnv)
    \/ KeyIgnored(ScreenEnv)

SpecScreen == InitScreen /\ [][NextScreen]_vars

----------------------------------------------------------------------------
(* Sessions whose line is typed: the peer typed one of Lines into a fresh   *)
(* session and sends NEWLINEs.                                              *)

LineAlphabet == {97, SPACE, DQUOTE, BACKTICK}

LINE_QUOTED == <<99, 109, 100, 32, 34, 97, 32, 98, 34, 32, 99>>
LINE_BACKTICK == <<99, 109, 100, 32, 96, 120, 34, 121, 96>>
LINE_LS == <<108, 115, 32, 45, 108>>
LINE_FOO == <<102, 111, 111>>
LINE_MANY == <<97, 32, 97, 32, 97, 32, 97, 32>>

(* the strings over LineAlphabet of length n *)
RECURSIVE Strings(_)
Strings(n) ==
    IF n = 0 THEN {<<>>} ELSE {Append(l, b) : l \in Strings(n - 1), b \in LineAlphabet}

Lines ==
    UNION { Strings(n) : n \in 0..MaxLineLen }
    \cup {LINE_QUOTED, LINE_BACKTICK, LINE_LS, LINE_FOO, LINE_MANY}

(* the descriptors registered before the session starts, in registration order *)
LineRegistrations ==
    { <<Descriptor(<<97>>, "sh_a1")>>,
      <<Descriptor(<<97>>, "sh_a1"), Descriptor(<<102, 111, 111>>, "sh_foo1"),
        Descriptor(<<108, 115>>, "sh_ls"), Descriptor(<<99, 109, 100>>, "sh_cmd"),
        Descriptor(<<102, 111, 111>>, "sh_foo2"), Descriptor(<<97>>, "sh_a2")>> }

InitLine ==
    \E regs \in LineRegistrations, line \in Lines :
        Resume(Replay(Fresh(LINE_BUFFER_SIZE, RegisterAll(<<>>, regs), <<>>, FALSE), line),
               FileContents)

NextLine ==
    \/ NewlineTrap(LineEnv)
    \/ NewlineCommand(LineEnv)
    \/ NewlineStat(LineEnv)
    \/ NewlineUnknown(LineEnv)

SpecLine == InitLine /\ [][NextLine]_vars

----------------------------------------------------------------------------
(* Sessions that redirect their input: the peer types letters and NEWLINEs, *)
(* the file "aa" holds one of RedirectFiles, the directory "aaa" exists,    *)
(* and a read of the connection inside an ESC sequence can fail.            *)

FILE_ENDS_NEWLINE == <<97, LF, 97, LF>>
FILE_NO_NEWLINE == <<97>>
FILE_NAMES_ITSELF == <<97, 97, LF, 97>>
FILE_HOLDS_ESCAPE == <<ESC, SS3, KEY_HOME, 97>>
FILE_ENDS_IN_ESCAPE == <<97, ESC, CSI>>
FILE_ENDS_WITH_KEY == <<97, ESC, CSI, KEY_LEFT>>

RedirectFiles ==
    { FILE_ENDS_NEWLINE, FILE_NO_NEWLINE, FILE_NAMES_ITSELF, FILE_HOLDS_ESCAPE,
      FILE_ENDS_IN_ESCAPE, FILE_ENDS_WITH_KEY }

FileEnv ==
    [inputs |-> {97, LF, ESC, READ_FAILS},
     tails |-> { <<READ_FAILS, READ_FAILS, READ_FAILS>> },
     cwds |-> {<<>>}, dirsizes |-> {0, 1}]

(* no command, a command that is not a file, a command named as the file *)
FileRegistries ==
    { RegisterAll(<<>>, cmds) :
        cmds \in { <<>>, <<Descriptor(<<97>>, "h1")>>, <<Descriptor(FILE_PATH, "h2")>> } }

InitFile ==
    \E head \in FileRegistries :
        Resume(Fresh(SHELL_CMD_BUFFER_SIZE, head, <<>>, FALSE), RedirectFiles)

NextFile ==
    \/ ReadEnd(FileEnv)
    \/ KeyEscape(FileEnv)
    \/ KeyPrintable(FileEnv)
    \/ NewlineTrap(FileEnv)
    \/ NewlineCommand(FileEnv)
    \/ NewlineStat(FileEnv)
    \/ NewlineUnknown(FileEnv)

SpecFile == InitFile /\ [][NextFile]_vars

----------------------------------------------------------------------------
(* Two sessions of one server, each in its own thread, as far as they use   *)
(* shell_cwd.  Here shell_cwd is the array itself.  getcwd() stores the     *)
(* path and its terminator byte by byte; put_prompt() takes the length of   *)
(* the string, makes its first writes, and then writes that many bytes of   *)
(* the array.  Nothing orders the steps of one thread against the other's.  *)

SESSIONS == 2

(* the paths getcwd() can report *)
CwdPaths == { <<97>>, <<98, 98>> }

(* the session is elsewhere in its loop *)
Elsewhere(shown) == [pc |-> "run", path |-> <<>>, i |-> 0, len |-> 0, shown |-> shown]

InitCwd ==
    LET k == Fresh(SHELL_CMD_BUFFER_SIZE, <<>>, ZeroArray(SHELL_CWD_LENGTH_MAX), FALSE)
    IN /\ head_cmd = k.sh.head_cmd
       /\ sh = k.sh
       /\ shell_cwd = k.cwd
       /\ inject = k.inject
       /\ file \in FileContents
       /\ fpos = k.fpos
       /\ fopen = k.fopen
       /\ term = k.term
       /\ rx = k.rx
       /\ tx = k.out
       /\ calls = k.calls
       /\ ev = k.ev
       /\ typed = k.typed
       /\ fault = k.fault
       /\ threads = [t \in 1..SESSIONS |-> Elsewhere(<<>>)]
       /\ fs = NoFiles
       /\ loop = Idle

SessionUnchanged ==
    UNCHANGED <<sh, head_cmd, inject, file, fpos, fopen, term, rx, tx, calls, ev, typed,
                fault, fs, loop>>

(* getcwd(shell_cwd, SHELL_CWD_LENGTH_MAX) is called: a session starts, or  *)
(* a handler returned SHELL_CMD_CHDIR                                       *)
GetcwdCall(t) ==
    /\ threads[t].pc = "run"
    /\ \E path \in CwdPaths :
          threads' = [threads EXCEPT ![t].pc = "getcwd", ![t].path = path, ![t].i = 0]
    /\ UNCHANGED shell_cwd
    /\ SessionUnchanged

(* getcwd() stores one byte: the next byte of the path, or the terminator *)
GetcwdStore(t) ==
    LET me == threads[t]
    IN /\ me.pc = "getcwd"
       /\ shell_cwd' = [shell_cwd EXCEPT ![me.i] =
                           IF me.i < Len(me.path) THEN me.path[me.i + 1] ELSE NUL]
       /\ threads' = IF me.i < Len(me.path)
                     THEN [threads EXCEPT ![t].i = me.i + 1]
                     ELSE [threads EXCEPT ![t] = Elsewhere(me.shown)]
       /\ SessionUnchanged

(* put_prompt(): int len = strlen(shell_cwd) *)
PromptLength(t) ==
    /\ threads[t].pc = "run"
    /\ threads' = [threads EXCEPT ![t].pc = "put_prompt",
                                  ![t].len = strlen_from(shell_cwd, 0)]
    /\ UNCHANGED shell_cwd
    /\ SessionUnchanged

(* put_prompt(): write(sh->writef, shell_cwd, len) *)
PromptWrite(t) ==
    LET me == threads[t]
    IN /\ me.pc = "put_prompt"
       /\ threads' = [threads EXCEPT ![t] =
                         Elsewhere([j \in 1..me.len |-> shell_cwd[j - 1]])]
       /\ UNCHANGED shell_cwd
       /\ SessionUnchanged

NextCwd ==
    \E t \in 1..SESSIONS :
        \/ GetcwdCall(t)
        \/ GetcwdStore(t)
        \/ PromptLength(t)
        \/ PromptWrite(t)

SpecCwd == InitCwd /\ [][NextCwd]_vars

----------------------------------------------------------------------------
(* What the properties below speak about.                                   *)

(* the line in the buffer: the bytes in [0, end-of-input) *)
LineOf(s) == [j \in 1..s.input_index |-> s.input_buffer[j - 1]]

(* the last loop iteration processed a NEWLINE *)
NewlineDone == rx = <<LF>>

(* the last loop iteration processed one printable byte *)
PrintableDone == Len(rx) = 1 /\ rx[1] >= SPACE /\ rx[1] # BACKSPACE

(* the arguments the tokenizer collected: the strings of the slots it set *)
CollectedArgs(s) ==
    LET n == Cardinality({j \in DOMAIN s.current_command.args :
                             s.current_command.args[j] # NULLP})
    IN [j \in 1..n |-> CStr(s.input_buffer, s.current_command.args[j - 1])]

(* The tokens of a line as the specification words them: runs of spaces     *)
(* separate tokens; a token opening with a quote character runs to the next *)
(* occurrence of that character or to the end of the line, both excluded.   *)
RECURSIVE RefSkip(_, _)
RefSkip(line, i) == IF i <= Len(line) /\ line[i] = SPACE THEN RefSkip(line, i + 1) ELSE i

RECURSIVE RefScan(_, _, _)
RefScan(line, i, d) == IF i <= Len(line) /\ line[i] # d THEN RefScan(line, i + 1, d) ELSE i

RECURSIVE RefTokens(_, _)
RefTokens(line, i) ==
    LET b == RefSkip(line, i)
    IN IF b > Len(line) THEN <<>>
       ELSE LET quoted == line[b] \in {BACKTICK, SQUOTE, DQUOTE}
                from == IF quoted THEN b + 1 ELSE b
                e == RefScan(line, from, IF quoted THEN line[b] ELSE SPACE)
            IN <<[j \in 1..(e - from) |-> line[from + j - 1]]>> \o RefTokens(line, e + 1)

Tokens(line) == RefTokens(line, 1)

(* the descriptors of a registration list that carry a name *)
Named(regs, name) == {i \in 1..Len(regs) : regs[i].name = name}

(* the handler of the descriptor registered last under a name *)
MostRecentHandler(regs, name) ==
    regs[CHOOSE i \in Named(regs, name) : \A j \in Named(regs, name) : j <= i].cmdfunc

----------------------------------------------------------------------------
(* C1, as the specification states it: in every state of a session          *)
(* 0 <= cursor index <= end-of-input index < buffer capacity - 1.           *)
C1_IndicesBelowLastCell ==
    /\ 0 <= sh.cursor_index
    /\ sh.cursor_index <= sh.input_index
    /\ sh.input_index < sizeof(sh.input_buffer) - 1

(* C1, amended: in every state of a session                                 *)
(* 0 <= cursor index <= end-of-input index <= buffer capacity - 1: the end  *)
(* of input can reach the last cell, which then holds the terminator.       *)
C1_IndicesWithinBuffer ==
    /\ 0 <= sh.cursor_index
    /\ sh.cursor_index <= sh.input_index
    /\ sh.input_index <= sizeof(sh.input_buffer) - 1

(* a line that fills the buffer was recalled from the history *)
C1_FullLineRecalled ==
    /\ ev = "up"
    /\ sh.input_index = sizeof(sh.input_buffer) - 1
    /\ sh.cursor_index = sh.input_index

(* C2: whatever editing keys and printable bytes a session processes, the   *)
(* cursor index is never below 0 and never above the end-of-input index.    *)
C2_CursorWithinLine == 0 <= sh.cursor_index /\ sh.cursor_index <= sh.input_index

(* Delete removed the last byte of the line: the end of input came down to the cursor *)
C2_DeletedAtCursor ==
    ev = "delete" /\ sh.input_index > 0 /\ sh.cursor_index = sh.input_index

(* C3: while every byte received since the line was empty was a printable   *)
(* byte, and they are no more than the buffer holds beside its terminator,  *)
(* the end-of-input index is their number and the buffer holds them in the  *)
(* order received.                                                          *)
C3_InsertionsInOrder ==
    (typed.pure /\ Len(typed.log) <= sizeof(sh.input_buffer) - 1)
        => (sh.input_index = Len(typed.log) /\ LineOf(sh) = typed.log)

(* a buffer filled by insertions of different bytes *)
C3_BufferFilledByTyping ==
    /\ typed.pure
    /\ Len(typed.log) = sizeof(sh.input_buffer) - 1
    /\ typed.log[1] # typed.log[2]
    /\ ev = "insert"

(* C4: a printable byte received while the buffer is full leaves the buffer *)
(* holding that byte alone (the byte in cell 0, the terminator in cell 1,   *)
(* cursor and end of input 1), writes no cell outside the buffer and leaves *)
(* the session running.                                                     *)
C4_OverflowRestartsLine ==
    [][(Running /\ PrintableDone' /\ sh.input_index = sizeof(sh.input_buffer) - 1)
          => /\ sh'.input_buffer[0] = rx'[1]
             /\ sh'.input_buffer[1] = NUL
             /\ sh'.cursor_index = 1
             /\ sh'.input_index = 1
             /\ fault' = "none"
             /\ ~sh'.exitflag]_vars

(* the byte that overflowed a line of other bytes is the line *)
C4_OverflowHappened ==
    /\ ev = "overflow"
    /\ rx = <<98>>
    /\ LineOf(sh) = <<98>>
    /\ sh.input_buffer[2] = 97

(* C5: after every loop iteration the terminal shows, after the prompt, the *)
(* bytes of the buffer in [0, end-of-input), and its cursor stands at the   *)
(* cursor index.  The line starts at column 0 until a prompt is drawn.      *)
C5_TerminalMirrorsLine ==
    \E origin \in {<<>>, PromptText(shell_cwd)} :
        /\ term.row = TrimRow(origin \o LineOf(sh))
        /\ term.col = Len(origin) + sh.cursor_index

C7_HandlerGetsOwnArguments ==
    [][(Running /\ NewlineDone' /\ fault' = "none"
           /\ Tokens(LineOf(sh)) # <<>> /\ Len(Tokens(LineOf(sh))) < SHELL_MAX_ARGS)
          => LET tokens == Tokens(LineOf(sh))
             IN /\ (\E i \in 1..Len(head_cmd) : head_cmd[i].name = tokens[1])
                      => /\ Len(calls') = 1
                         /\ \E i \in 1..Len(head_cmd) :
                               /\ head_cmd[i].name = tokens[1]
                               /\ calls'[1].cmdfunc = head_cmd[i].cmdfunc
                         /\ calls'[1].nargs = Len(tokens) - 1
                         /\ calls'[1].args = Tail(tokens)
                /\ (\A i \in 1..Len(head_cmd) : head_cmd[i].name # tokens[1])
                      => calls' = <<>>
                /\ (LineOf(sh) = LINE_LS
                       /\ \E i \in 1..Len(head_cmd) : head_cmd[i].name = <<108, 115>>)
                      => \E code \in Codes :
                            calls' = <<[cmdfunc |-> "sh_ls", nargs |-> 1,
                                        args |-> <<<<45, 108>>>>, code |-> code]>>]_vars

(* the handler of ls was invoked for "ls -l" *)
C7_LsInvoked ==
    /\ NewlineDone
    /\ \E code \in Codes :
          calls = <<[cmdfunc |-> "sh_ls", nargs |-> 1, args |-> <<<<45, 108>>>>,
                     code |-> code]>>

(* C8: the registry holds the descriptors most recently registered first,   *)
(* and a line whose first token is a registered name invokes the handler    *)
(* registered last under that name: "foo", registered twice, invokes the    *)
(* second handler and not the first.                                        *)
C8_LastRegisteredWins ==
    [][(Running /\ NewlineDone' /\ fault' = "none" /\ Tokens(LineOf(sh)) # <<>>)
          => \A regs \in LineRegistrations :
                (head_cmd = RegisterAll(<<>>, regs)
                    /\ Named(regs, Tokens(LineOf(sh))[1]) # {})
                  => /\ Len(calls') = 1
                     /\ calls'[1].cmdfunc = MostRecentHandler(regs, Tokens(LineOf(sh))[1])
                     /\ LineOf(sh) = LINE_FOO => calls'[1].cmdfunc = "sh_foo2"]_vars

(* "foo" was dispatched in a session that has it registered twice *)
C8_FooDispatched ==
    /\ NewlineDone
    /\ CollectedArgs(sh) = <<LINE_FOO>>
    /\ Cardinality({i \in 1..Len(head_cmd) : head_cmd[i].name = LINE_FOO}) = 2
    /\ Len(calls) = 1
    /\ calls[1].cmdfunc = "sh_foo2"

(* C9: a finalized line that matches no command, starts no redirection      *)
(* (the name is not that of a non-empty regular file, or a redirection is   *)
(* active) and has a non-empty argument 0 makes the session write the       *)
(* unknown-command message and the name, and then the new prompt.           *)
C9_UnknownCommandReported ==
    [][(/\ Running /\ NewlineDone' /\ fault' = "none"
        /\ sh'.current_command.cmd = 0
        /\ sh'.current_command.args[0] # NULLP
        /\ CStr(sh'.input_buffer, sh'.current_command.args[0]) # <<>>
        /\ (CStr(sh'.input_buffer, 0) # FILE_PATH \/ sh.readfs))
          => tx' = SHELL_NO_SUCH_COMMAND
                     \o CStr(sh'.input_buffer, sh'.current_command.args[0])
                     \o <<CR, LF>> \o PromptText(shell_cwd')]_vars

(* C10: the slots of the history ring that hold a line are the first ones,  *)
(* the write cursor follows them until the ring is full, so no slot written *)
(* holds an empty line; and finalizing an empty line changes neither the    *)
(* ring nor the write cursor.                                               *)
C10_StoredSlots == {h \in DOMAIN sh.history : sh.history[h][0] # NUL}

C10_NoEmptyLineStored ==
    /\ [](/\ \A h \in DOMAIN sh.history : h \in C10_StoredSlots <=> h < Cardinality(C10_StoredSlots)
          /\ Cardinality(C10_StoredSlots) < SHELL_HISTORY_LENGTH
                => sh.history_save_index = Cardinality(C10_StoredSlots))
    /\ [][(Running /\ NewlineDone' /\ sh.input_index = 0)
             => /\ sh'.history = sh.history
                /\ sh'.history_save_index = sh.history_save_index]_vars

(* an empty line was finalized in a session whose ring holds a line *)
C10_EmptyLineFinalized ==
    /\ NewlineDone
    /\ ev = "no_args"
    /\ sh.input_buffer[0] = NUL
    /\ sh.history[0][0] # NUL
    /\ sh.history_save_index = 1

(* the slot written last: the one before the write cursor *)
RecentSlot(s) ==
    (s.history_save_index + SHELL_HISTORY_LENGTH - 1) % SHELL_HISTORY_LENGTH

(* n presses of the UP key *)
RECURSIVE UpTimes(_, _)
UpTimes(k, n) == IF n = 0 THEN k ELSE UpTimes(Up(k), n - 1)

(* within a round of the ring, UP selects the slot written last and loads it *)
UpSelectsRecent ==
    \E n \in 1..SHELL_HISTORY_LENGTH :
        LET k == UpTimes(Ctx, n)
        IN /\ k.sh.history_index = RecentSlot(sh)
           /\ LineOf(k.sh) = CStr(sh.history[RecentSlot(sh)], 0)

(* C11: finalizing a non-empty line stores it in the slot at the write      *)
(* cursor, the slot written longest ago, and in no other slot, and that     *)
(* slot then is the one written last, so that N+1 lines overwrite the       *)
(* oldest entry only; and from every history selection UP presses select    *)
(* the slot written last and load its line into the buffer.                 *)
C11_OldestOverwrittenUpCycles ==
    /\ [][(Running /\ NewlineDone' /\ fault' = "none" /\ sh.input_index > 0)
             => /\ CStr(sh'.history[sh.history_save_index], 0) = LineOf(sh)
                /\ \A h \in DOMAIN sh.history \ {sh.history_save_index} :
                      sh'.history[h] = sh.history[h]
                /\ RecentSlot(sh') = sh.history_save_index]_vars
    /\ [](C10_StoredSlots # {} => UpSelectsRecent)

(* input is redirected: bytes are read from the file *)
Redirected(s) == s.readf = "filefd"

(* the last loop iteration consumed the last byte of the redirected file *)
LastByteRead == Redirected(sh) /\ fpos < Len(file) /\ fpos' = Len(file)

(* C12: the iteration that reads the last byte of the redirected file ends  *)
(* the redirection and leaves a synthetic NEWLINE pending exactly when that *)
(* byte is not a NEWLINE; a pending synthetic NEWLINE is processed, as a    *)
(* NEWLINE that finalizes the line, by the next iteration and only by it.   *)
C12_SyntheticNewlineOnce ==
    /\ [][LastByteRead
             => /\ ~Redirected(sh')
                /\ inject' = (IF file[Len(file)] # LF THEN LF ELSE NUL)]_vars
    /\ [][inject # NUL
             => /\ inject = LF /\ NewlineDone' /\ inject' = NUL
                /\ sh'.input_index = 0]_vars

(* the last loop iteration moved the read position of the redirected file   *)
(* to the size stat() recorded                                              *)
ReachedRecordedSize ==
    Redirected(sh) /\ fpos < sh.sstat.st_size /\ fpos' = sh.sstat.st_size

(* C13: the iteration in which the read position of the redirected file     *)
(* reaches its recorded size closes the file, once, and makes the           *)
(* connection, the descriptor saved when the redirection began, the byte    *)
(* source again; no file is closed twice; and a session never ends on a     *)
(* read of the file.                                                        *)
C13_FileClosedSourceRestored ==
    /\ [][ReachedRecordedSize
             => /\ fopen' = fopen - 1
                /\ sh'.readf = sh.savereadf /\ sh'.readf = "connfd"
                /\ ~sh'.readfs
                /\ sh'.sstat.st_size = 0]_vars
    /\ [](fopen >= 0)
    /\ []((sh.exitflag /\ ev = "read_end") => ~Redirected(sh))

(* the last loop iteration ended on a read at its head that returned <= 0 *)
HeadReadFailed == ev' = "read_end"

(* the last loop iteration read an ESC and the read after it returned <= 0: *)
(* no byte followed the ESC                                                 *)
EscapeReadFailed == rx' = <<ESC>>

(* the last loop iteration ran a handler that returned the exit status *)
ExitStatusReturned ==
    ev' = "command" /\ calls'[Len(calls')].code = "SHELL_CMD_KILL"

(* C14: the exit flag becomes set only by a read that returned <= 0 or by a *)
(* handler that returned the exit status, and every loop iteration in which *)
(* a read returned <= 0, at the head of the loop or after an ESC, sets it.  *)
C14_ExitOnlyAndAlwaysOnReadEnd ==
    /\ [][(~sh.exitflag /\ sh'.exitflag) => (HeadReadFailed \/ ExitStatusReturned)]_vars
    /\ [][(Running /\ (HeadReadFailed \/ EscapeReadFailed)) => sh'.exitflag]_vars

(* C15: a session whose exit flag is set, and whose loop is therefore left  *)
(* and whose instance is freed, holds no open file: every file opened for   *)
(* input redirection has been closed.                                       *)
C15_NoFileOpenAtExit == sh.exitflag => fopen = 0

(* C16: every path a session shows in a prompt is a value that was cached,  *)
(* one of the paths getcwd() reported or the initial empty string, never a  *)
(* mix of two; and a prompt drawn while no getcwd() is under way shows the  *)
(* path cached last, whichever session cached it.                           *)
C16_PromptShowsCachedPath ==
    /\ [](\A t \in DOMAIN threads : threads[t].shown \in CwdPaths \cup {<<>>})
    /\ [][\A t \in DOMAIN threads :
             (/\ threads[t].pc = "put_prompt" /\ threads'[t].pc = "run"
              /\ \A u \in DOMAIN threads : threads[u].pc # "getcwd")
                 => threads'[t].shown = CStr(shell_cwd, 0)]_vars

(* C17: finalizing a non-empty line leaves, in the history slot the write   *)
(* cursor pointed at, the line as it was before the tokenizer cut it up,    *)
(* and moves the write cursor on by one modulo the ring size, whatever the  *)
(* registry holds and wherever the line was read from.                      *)
C17_RawLineSavedAtCursor ==
    [][(Running /\ NewlineDone' /\ fault' = "none" /\ sh.input_index > 0)
          => /\ \A j \in 0..(sizeof(sh.input_buffer) - 2) :
                   sh'.history[sh.history_save_index][j] =
                       IF j < sh.input_index THEN sh.input_buffer[j] ELSE NUL
             /\ sh'.history_save_index =
                   (sh.history_save_index + 1) % SHELL_HISTORY_LENGTH]_vars

(* C18: when the finalized line names the regular file and open() fails,    *)
(* the connection is the byte source again, no redirection is active, and   *)
(* the session writes the unknown-command message and the name, and then    *)
(* the new prompt.                                                          *)
C18_OpenFailureReported ==
    [][ev' = "open_failed"
          => /\ sh'.readf = "connfd" /\ ~sh'.readfs /\ sh'.sstat.st_size = 0
             /\ fopen' = fopen
             /\ tx' = SHELL_NO_SUCH_COMMAND \o FILE_PATH
                        \o <<CR, LF>> \o PromptText(shell_cwd')]_vars

(* the last loop iteration opened a file for redirection *)
RedirectionStarted == fopen' > fopen

(* C19: a file is opened for redirection only by a NEWLINE whose line       *)
(* matched no command and ran no handler, names the regular file, and came  *)
(* while no redirection was active; at most one file is open; and while     *)
(* input is redirected no iteration opens a file or changes the saved       *)
(* descriptor of the connection.                                            *)
C19_RedirectionOnlyWhenIdle ==
    /\ [][RedirectionStarted
             => /\ NewlineDone'
                /\ sh'.current_command.cmd = 0 /\ calls' = <<>>
                /\ CStr(sh'.input_buffer, 0) = FILE_PATH
                /\ ~Redirected(sh) /\ sh.sstat.st_size = 0 /\ fopen = 0
                /\ sh'.savereadf = "connfd"]_vars
    /\ [][Redirected(sh)
             => ~RedirectionStarted /\ sh'.savereadf = sh.savereadf]_vars
    /\ [](fopen <= 1)

(* while the file was being read, a line naming the file was finalized and  *)
(* reported as unknown, and the one file is still open                      *)
C19_FileNamedWhileRedirected ==
    /\ NewlineDone
    /\ Redirected(sh)
    /\ ev = "unknown"
    /\ CStr(sh.input_buffer, 0) = FILE_PATH
    /\ fopen = 1
    /\ sh.savereadf = "connfd"

(* the status the handler run by the last loop iteration returned *)
ReturnedStatus == calls'[Len(calls')].code

(* bytes ends with the bytes of tail *)
EndsWith(bytes, tail) ==
    /\ Len(bytes) >= Len(tail)
    /\ SubSeq(bytes, Len(bytes) - Len(tail) + 1, Len(bytes)) = tail

(* C20: the iteration that runs a handler sets the exit flag exactly when   *)
(* the handler returned the exit status, and in every case finishes: the    *)
(* indices are reset and the output ends with the new prompt, which for the *)
(* exit status follows the line break written on the match and is drawn     *)
(* once; once the exit flag is set the session takes no further step, so it *)
(* reads no further byte.                                                   *)
C20_ExitStatusEndsLoop ==
    /\ [][(Running /\ ev' = "command")
             => /\ sh'.exitflag <=> ReturnedStatus = "SHELL_CMD_KILL"
                /\ sh'.input_index = 0 /\ sh'.cursor_index = 0
                /\ EndsWith(tx', <<CR, LF>> \o PromptText(shell_cwd'))
                /\ ReturnedStatus = "SHELL_CMD_KILL"
                      => tx' = SHELL_NEWLINE \o <<CR, LF>> \o PromptText(shell_cwd')]_vars
    /\ [][~sh.exitflag]_vars

(* a handler returned the exit status and the iteration completed *)
C20_ExitCommandRun ==
    /\ ev = "command"
    /\ calls[Len(calls)].code = "SHELL_CMD_KILL"
    /\ sh.exitflag
    /\ sh.input_index = 0
    /\ tx = SHELL_NEWLINE \o <<CR, LF>> \o PromptText(shell_cwd)

(* the names of a registration list, last registered first, each after a    *)
(* line break                                                               *)
RECURSIVE ListedNames(_)
ListedNames(regs) ==
    IF regs = <<>> THEN <<>>
    ELSE SHELL_NEWLINE \o regs[Len(regs)].name
           \o ListedNames(SubSeq(regs, 1, Len(regs) - 1))

(* C21: when a handler returns the print-commands status the session writes *)
(* the help heading and then the name of every descriptor registered before *)
(* the session started, each once, the last registered first, and then the  *)
(* new prompt.                                                              *)
C21_NamesListedHeadToTail ==
    [][(Running /\ ev' = "command" /\ ReturnedStatus = "SHELL_CMD_PRINT_CMDS")
          => \E regs \in LineRegistrations :
                /\ head_cmd = RegisterAll(<<>>, regs)
                /\ tx' = SHELL_NEWLINE \o SHELL_HELP_STR \o ListedNames(regs)
                           \o <<CR, LF>> \o PromptText(shell_cwd')]_vars

(* six descriptors are registered and their names were listed *)
C21_SixNamesListed ==
    /\ ev = "command"
    /\ Len(head_cmd) = 6
    /\ calls[Len(calls)].code = "SHELL_CMD_PRINT_CMDS"
    /\ tx = SHELL_NEWLINE \o SHELL_HELP_STR
              \o SHELL_NEWLINE \o <<97>> \o SHELL_NEWLINE \o <<102, 111, 111>>
              \o SHELL_NEWLINE \o <<99, 109, 100>> \o SHELL_NEWLINE \o <<108, 115>>
              \o SHELL_NEWLINE \o <<102, 111, 111>> \o SHELL_NEWLINE \o <<97>>
              \o <<CR, LF>> \o PromptText(shell_cwd)

----------------------------------------------------------------------------
(* Sessions that run the built-in cd: the command is registered as          *)
(* install_fs_cmds registers it, the peer typed a line and sends NEWLINEs.  *)

IS_NOT_A_DIRECTORY ==
    <<32, 105, 115, 32, 110, 111, 116, 32, 97, 32, 100, 105, 114, 101, 99, 116, 111, 114, 121>>
ROOT_PATH == <<47>>
CD_NAME == <<99, 100>>

(* arg_by_index(index, args, nargs): the string of the handler's argument *)
arg_by_index(k, index) ==
    ArgStrings(k.sh, 1, U8(k.sh.current_command.nargs))[index + 1]

(* sh_cd(fdes, args, nargs): path is "/" without arguments; chdir(path)     *)
(* succeeds or not, chdir_ok; a failure writes the path and the message;    *)
(* the status returned does not depend on it                                *)
sh_cd(k, chdir_ok) ==
    LET path == IF U8(k.sh.current_command.nargs) = 0 THEN ROOT_PATH
                ELSE arg_by_index(k, 0)
    IN [k |-> IF chdir_ok THEN k ELSE Emit(k, path \o IS_NOT_A_DIRECTORY),
        path |-> path,
        code |-> "SHELL_CMD_EXIT"]

(* the command matched is cd: run sh_cd and act on its status code; getcwd  *)
(* would report the path the process moved to                               *)
RunCd(k, chdir_ok) ==
    LET cc == k.sh.current_command
        r == sh_cd(k, chdir_ok)
        getcwd == IF chdir_ok THEN r.path ELSE k.cwd
    IN FreshPrompt(shell_builtins(
           shell_cmd_exec([r.k EXCEPT !.ev = "command"], cc.cmd, 1, cc.nargs, r.code),
           r.code, cc.cmd, getcwd))

NewlineCd(E) ==
    /\ Running
    /\ \E c \in Offer(E.inputs \cap {LF}), trap \in FtellTraps :
          LET f == Fetch(Ctx, c, trap)
              p == Finalize(f.k, FALSE)
          IN /\ ~f.stop /\ f.data = LF
             /\ p.sh.current_command.cmd # 0
             /\ p.sh.head_cmd[p.sh.current_command.cmd].cmdfunc = "sh_cd"
             /\ \E chdir_ok \in BOOLEAN : Commit(RunCd(p, chdir_ok))

(* the lines typed: cd alone, cd with arguments, and lines that name nothing *)
CdLines ==
    { CD_NAME \o l : l \in { <<>> } \cup { <<SPACE>> \o a : a \in UNION { Strings(n) : n \in 1..3 } } }
    \cup UNION { Strings(n) : n \in 0..2 }

InitCd ==
    \E line \in CdLines :
        Resume(Replay(Fresh(LINE_BUFFER_SIZE,
                            RegisterAll(<<>>, <<Descriptor(CD_NAME, "sh_cd")>>),
                            <<>>, FALSE), line),
               FileContents)

NextCd ==
    \/ NewlineTrap(LineEnv)
    \/ NewlineCd(LineEnv)
    \/ NewlineStat(LineEnv)
    \/ NewlineUnknown(LineEnv)

SpecCd == InitCd /\ [][NextCd]_vars

(* bytes holds the bytes of part somewhere *)
Occurs(bytes, part) ==
    \E i \in 1..(Len(bytes) - Len(part) + 1) : SubSeq(bytes, i, i + Len(part) - 1) = part

(* the path the cd of this step changed to *)
CdPath ==
    LET call == calls'[Len(calls')]
    IN IF call.nargs = 0 THEN ROOT_PATH ELSE call.args[1]

(* this step ran sh_cd and its chdir succeeded: no complaint was written *)
CdSucceeded ==
    /\ Running
    /\ ev' = "command"
    /\ calls'[Len(calls')].cmdfunc = "sh_cd"
    /\ ~Occurs(tx', IS_NOT_A_DIRECTORY)

(* C22: after a cd that changed the working directory the handler returns   *)
(* the change-directory status, the session caches the new path and the     *)
(* prompt drawn at the end of the iteration shows it.                       *)
C22_CdRefreshesPrompt ==
    [][CdSucceeded
         => /\ ReturnedStatus = "SHELL_CMD_CHDIR"
            /\ shell_cwd' = CdPath
            /\ EndsWith(tx', PromptText(CdPath))]_vars

(* C22: what the code does: a cd that succeeded returns the plain exit      *)
(* status and leaves the cached path and the prompt as they were.           *)
C22_CdKeepsStalePath ==
    [][CdSucceeded
         => /\ ReturnedStatus = "SHELL_CMD_EXIT"
            /\ shell_cwd' = shell_cwd
            /\ tx' = SHELL_NEWLINE \o <<CR, LF>> \o PromptText(shell_cwd)]_vars

C22_CdToNewDirectory ==
    /\ ev = "command"
    /\ calls = <<[cmdfunc |-> "sh_cd", nargs |-> 1, args |-> <<<<97>>>>, code |-> "SHELL_CMD_EXIT"]>>
    /\ tx = SHELL_NEWLINE \o <<CR, LF>> \o PromptText(<<>>)
    /\ shell_cwd = <<>>

----------------------------------------------------------------------------
(* the bytes of the keys, as one iteration reads them *)
UpKey == <<ESC, CSI, KEY_UP>>
DownKey == <<ESC, CSI, KEY_DOWN>>
DeleteKey == <<ESC, CSI, KEY_3, KEY_TILDE>>

(* C23: the Up key moves the history index back by exactly one and wraps it *)
(* to the last slot of the ring when that goes below 0, so the index is in  *)
(* 0 .. SHELL_HISTORY_LENGTH-1 after every Up; the Down key sets it to -1.  *)
C23_UpStepsBackDownResets ==
    [][/\ (Running /\ rx' = UpKey)
            => /\ sh'.history_index = IF sh.history_index - 1 < 0
                                      THEN SHELL_HISTORY_LENGTH - 1
                                      ELSE sh.history_index - 1
               /\ sh'.history_index \in 0..(SHELL_HISTORY_LENGTH - 1)
       /\ (Running /\ rx' = DownKey) => sh'.history_index = -1]_vars

C23_UpReachedFirstSlot ==
    /\ rx = UpKey
    /\ ev = "up"
    /\ sh.history_index = 0
    /\ sh.history[0][0] # NUL

(* C24: recalling a history entry (historic_prompt, run by Up and Down):    *)
(* with the index outside the ring the line becomes empty, cursor and end   *)
(* of input 0; with a non-empty entry at the index the line becomes that    *)
(* entry, cursor and end of input at its length; with an empty slot at the  *)
(* index the buffer, the cursor and the end of input are unchanged.         *)
C24_RecallReplacesOrKeepsLine ==
    [][(Running /\ rx' \in {UpKey, DownKey})
         => LET index == sh'.history_index
            IN IF index \notin 0..(SHELL_HISTORY_LENGTH - 1)
               THEN /\ CStr(sh'.input_buffer, 0) = <<>>
                    /\ sh'.cursor_index = 0
                    /\ sh'.input_index = 0
               ELSE IF sh.history[index][0] # NUL
               THEN /\ CStr(sh'.input_buffer, 0) = CStr(sh.history[index], 0)
                    /\ sh'.cursor_index = Len(CStr(sh.history[index], 0))
                    /\ sh'.input_index = sh'.cursor_index
                    /\ sh'.history = sh.history
               ELSE /\ sh'.input_buffer = sh.input_buffer
                    /\ sh'.cursor_index = sh.cursor_index
                    /\ sh'.input_index = sh.input_index]_vars

C24_EntryRecalledOverTypedLine ==
    /\ rx = UpKey
    /\ typed.pure = FALSE
    /\ sh.history_index = 1
    /\ CStr(sh.history[1], 0) = <<97, 98>>
    /\ LineOf(sh) = <<97, 98>>
    /\ sh.cursor_index = 2
    /\ tx = <<CR>> \o PromptText(shell_cwd) \o <<SPACE>> \o <<CR>> \o PromptText(shell_cwd) \o <<97, 98>>

(* C25: a printable byte received while the line is shorter than the buffer *)
(* less its terminator is stored at the cursor: the bytes before the cursor *)
(* stay, the bytes from the cursor on move one cell right in order, cursor  *)
(* and end of input grow by one; a byte below ' ' other than ESC and        *)
(* NEWLINE changes nothing of the session and nothing is written.           *)
C25_PrintableInsertedAtCursor ==
    [][/\ (/\ Running
           /\ Len(rx') = 1 /\ rx'[1] >= SPACE /\ rx'[1] # BACKSPACE
           /\ sh.input_index < sizeof(sh.input_buffer) - 1)
          => /\ \A j \in 0..(sh.cursor_index - 1) : sh'.input_buffer[j] = sh.input_buffer[j]
             /\ sh'.input_buffer[sh.cursor_index] = rx'[1]
             /\ \A j \in sh.cursor_index..(sh.input_index - 1) :
                    sh'.input_buffer[j + 1] = sh.input_buffer[j]
             /\ sh'.cursor_index = sh.cursor_index + 1
             /\ sh'.input_index = sh.input_index + 1
       /\ (/\ Running
           /\ Len(rx') = 1 /\ rx'[1] < SPACE /\ rx'[1] \notin {ESC, LF})
          => /\ sh' = sh
             /\ tx' = <<>>]_vars

C25_InsertedInsideLine ==
    /\ rx = <<98>>
    /\ ev = "insert"
    /\ LineOf(sh) = <<97, 98, 97>>
    /\ sh.cursor_index = 2
    /\ sh.input_index = 3

(* n cursor-left sequences *)
RECURSIVE Arrows(_)
Arrows(n) == IF n = 0 THEN <<>> ELSE SHELL_LEFTARROW \o Arrows(n - 1)

(* line without its byte number at, counted from 0 *)
Without(line, at) == SubSeq(line, 1, at) \o SubSeq(line, at + 2, Len(line))

(* C26: BACKSPACE with the cursor behind the start of the line removes the  *)
(* byte left of the cursor and keeps the order of the others, cursor and    *)
(* end of input shrink by one, and the redraw ends with as many cursor-left *)
(* sequences as the end of input is ahead of the cursor; with the cursor at *)
(* 0 buffer, cursor and end of input are unchanged and nothing is written.  *)
C26_BackspaceRemovesLeftOfCursor ==
    [][(Running /\ rx' = <<BACKSPACE>>)
         => IF sh.cursor_index > 0
            THEN /\ LineOf(sh') = Without(LineOf(sh), sh.cursor_index - 1)
                 /\ sh'.cursor_index = sh.cursor_index - 1
                 /\ sh'.input_index = sh.input_index - 1
                 /\ tx' = <<CR>> \o PromptText(shell_cwd) \o LineOf(sh') \o <<SPACE>>
                          \o <<CR>> \o PromptText(shell_cwd) \o LineOf(sh')
                          \o Arrows(sh'.input_index - sh'.cursor_index)
            ELSE /\ sh'.input_buffer = sh.input_buffer
                 /\ sh'.cursor_index = sh.cursor_index
                 /\ sh'.input_index = sh.input_index
                 /\ tx' = <<>>]_vars

C26_RemovedInsideLine ==
    /\ rx = <<BACKSPACE>>
    /\ ev = "backspace"
    /\ LineOf(sh) = <<97, 98>>
    /\ sh.cursor_index = 1
    /\ tx = <<CR>> \o PromptText(shell_cwd) \o <<97, 98, SPACE>>
            \o <<CR>> \o PromptText(shell_cwd) \o <<97, 98>> \o SHELL_LEFTARROW

(* C27: the Delete sequence with the cursor before the end of input removes *)
(* the byte at the cursor and keeps the order of the others, the end of     *)
(* input shrinks by one and the cursor stays; with the cursor at the end of *)
(* input nothing of the session changes and nothing is written.             *)
C27_DeleteRemovesAtCursor ==
    [][(Running /\ rx' = DeleteKey)
         => IF sh.cursor_index < sh.input_index
            THEN /\ LineOf(sh') = Without(LineOf(sh), sh.cursor_index)
                 /\ sh'.input_index = sh.input_index - 1
                 /\ sh'.cursor_index = sh.cursor_index
                 /\ sh'.history = sh.history
                 /\ sh'.history_index = sh.history_index
            ELSE /\ sh' = sh
                 /\ tx' = <<>>]_vars

C27_DeletedInsideLine ==
    /\ rx = DeleteKey
    /\ ev = "delete"
    /\ LineOf(sh) = <<97, 98>>
    /\ sh.cursor_index = 1
    /\ tx = <<CR>> \o PromptText(shell_cwd) \o <<97, 98, SPACE>>
            \o <<CR>> \o PromptText(shell_cwd) \o <<97, 98>> \o SHELL_LEFTARROW

(* the bytes one iteration read are ESC and bytes that continue no sequence *)
(* of the ESC branch                                                        *)
Unrecognized(bytes) ==
    /\ Len(bytes) >= 2
    /\ bytes[1] = ESC
    /\ \/ Len(bytes) = 2 /\ bytes[2] \notin {CSI, SS3}
       \/ /\ Len(bytes) = 3 /\ bytes[2] = CSI
          /\ bytes[3] \notin {KEY_3, KEY_UP, KEY_DOWN, KEY_LEFT, KEY_RIGHT}
       \/ Len(bytes) = 4 /\ bytes[2] = CSI /\ bytes[3] = KEY_3 /\ bytes[4] # KEY_TILDE
       \/ Len(bytes) = 3 /\ bytes[2] = SS3 /\ bytes[3] \notin {KEY_HOME, KEY_END}

(* the bytes one iteration read are one of the keys the ESC branch decodes *)
Recognized(bytes) ==
    bytes \in { UpKey, DownKey, DeleteKey, <<ESC, CSI, KEY_LEFT>>, <<ESC, CSI, KEY_RIGHT>>,
                <<ESC, SS3, KEY_HOME>>, <<ESC, SS3, KEY_END>> }

(* C28: bytes after ESC that continue no recognised sequence are consumed,  *)
(* up to and including the byte that breaks the sequence and no byte more,  *)
(* and have no effect: buffer, cursor, end of input, history index and ring *)
(* and the byte held for injection are unchanged and nothing is written, so *)
(* the next iteration decodes the next byte as any first byte.              *)
C28_UnrecognizedEscapeSwallowed ==
    [][/\ (Running /\ rx' # <<>> /\ rx'[1] = ESC) => (Recognized(rx') \/ Unrecognized(rx'))
       /\ (Running /\ Unrecognized(rx'))
            => /\ sh' = sh
               /\ inject' = inject
               /\ tx' = <<>>
               /\ fault' = "none"]_vars

C28_SwallowedInsideSequence ==
    /\ rx = <<ESC, CSI, KEY_3, 97>>
    /\ ev = "esc_swallowed"
    /\ LineOf(sh) = <<97, 98>>
    /\ sh.cursor_index = 1
    /\ sh.history_index = 0

(* the outcome of a NEWLINE iteration *)
Dispatched == ev' \in {"command", "redirect", "open_failed", "stat_other", "unknown", "no_args"}

(* C29: a NEWLINE terminates the buffer at the end of input, hands the line *)
(* to parse_input and to at most one handler once, and whatever the outcome *)
(* leaves cursor and end of input at 0 and ends with a fresh prompt drawn   *)
(* on a new line.                                                           *)
C29_NewlineResetsAndPrompts ==
    [][(Running /\ rx' = <<LF>>)
         => /\ Dispatched
            /\ sh'.input_buffer[sh.input_index] = NUL
            /\ Len(calls') = IF sh'.current_command.cmd # 0 THEN 1 ELSE 0
            /\ sh'.cursor_index = 0
            /\ sh'.input_index = 0
            /\ EndsWith(tx', <<CR, LF>> \o PromptText(shell_cwd'))]_vars

(* C29, for the iterations in which the matching did not trap *)
C29_NewlineResetsUnlessTrapped ==
    [][(Running /\ rx' = <<LF>> /\ fault' = "none")
         => /\ Dispatched
            /\ sh'.input_buffer[sh.input_index] = NUL
            /\ Len(calls') = IF sh'.current_command.cmd # 0 THEN 1 ELSE 0
            /\ sh'.cursor_index = 0
            /\ sh'.input_index = 0
            /\ EndsWith(tx', <<CR, LF>> \o PromptText(shell_cwd'))]_vars

(* C30: the matching of a finalized line against the registry has a token   *)
(* as argument 0, for the empty line and a line of spaces too, and never    *)
(* reads an absent argument.                                                *)
C30_MatchedArgumentDefined ==
    [][(Running /\ rx' = <<LF>> /\ head_cmd # <<>>)
         => /\ sh'.current_command.args[0] # NULLP
            /\ fault' # "strncmp_null"]_vars

(* C30, what the code does: argument 0 is absent exactly for the lines      *)
(* without a token, and only then can the matching trap.                    *)
C30_ArgumentAbsentWithoutToken ==
    [][(Running /\ rx' = <<LF>> /\ head_cmd # <<>>)
         => /\ (sh'.current_command.args[0] = NULLP) <=> (\A j \in 1..sh.input_index : LineOf(sh)[j] = SPACE)
            /\ (fault' = "strncmp_null") => (sh'.current_command.args[0] = NULLP)]_vars

----------------------------------------------------------------------------
(* the number of argument slots the tokenizer set *)
SlotsSet(s) ==
    Cardinality({j \in DOMAIN s.current_command.args : s.current_command.args[j] # NULLP})

(* C31: the tokenizer stops at the capacity of the argument array: the slots *)
(* set are the first ones of the array and at most SHELL_MAX_ARGS, the       *)
(* count kept is their number (less the command name after a match), each   *)
(* slot points into the input buffer at a string the buffer terminates, and *)
(* the line from the start of the last slot of a full array on is not cut.  *)
C31_CollectionStopsAtCapacity ==
    [][(Running /\ rx' = <<LF>> /\ head_cmd # <<>>)
         => LET cc == sh'.current_command
                n == SlotsSet(sh')
            IN /\ DOMAIN cc.args = 0..(SHELL_MAX_ARGS - 1)
               /\ n <= SHELL_MAX_ARGS
               /\ \A j \in DOMAIN cc.args : cc.args[j] # NULLP <=> j < n
               /\ cc.nargs = IF cc.cmd # 0 THEN n - 1 ELSE n
               /\ \A j \in 0..(n - 1) :
                     /\ cc.args[j] \in DOMAIN sh'.input_buffer
                     /\ ~Unterminated(sh'.input_buffer, cc.args[j])
               /\ n = SHELL_MAX_ARGS
                     => \A i \in cc.args[SHELL_MAX_ARGS - 1]..(sh.input_index - 1) :
                           sh'.input_buffer[i] = sh.input_buffer[i]]_vars

C31_ArrayFilled ==
    /\ NewlineDone
    /\ SlotsSet(sh) = SHELL_MAX_ARGS
    /\ CollectedArgs(sh)[SHELL_MAX_ARGS] = <<97, 32>>

----------------------------------------------------------------------------
(* Sessions that run the built-in cp on a file system of two paths.         *)

ARGUMENT_NOT_SPECIFIED ==
    <<97, 114, 103, 117, 109, 101, 110, 116, 32, 110, 111, 116, 32, 115, 112, 101, 99, 105,
      102, 105, 101, 100>>
ERROR_OPENING_SOURCE_FILE ==
    <<99, 111, 117, 108, 100, 110, 116, 32, 111, 112, 101, 110, 32, 115, 111, 117, 114, 99,
      101, 32, 102, 105, 108, 101>>
ERROR_OPENING_DEST_FILE ==
    <<99, 111, 117, 108, 100, 110, 116, 32, 111, 112, 101, 110, 32, 100, 101, 115, 116, 105,
      110, 97, 116, 105, 111, 110, 32, 102, 105, 108, 101>>
CP_NAME == <<99, 112>>

(* arg_by_index(index, args, nargs) is not NULL *)
arg_present(k, index) == index < U8(k.sh.current_command.nargs)

(* fopen(path, "r"): the stream exists when the file does *)
fopen_r(files, path) == path \in DOMAIN files

(* fopen(path, "w"): the file is created or cut to length 0 *)
fopen_w(files, path) == [p \in DOMAIN files \cup {path} |-> IF p = path THEN <<>> ELSE files[p]]

(* the fread/fwrite loop: what the source holds when the loop runs is       *)
(* appended to the destination                                              *)
copy_loop(files, from, to) == [files EXCEPT ![to] = @ \o files[from]]

(* sh_cp(fdes, args, nargs) on the file system files: path and newpath are  *)
(* both argument 0, and the stream written is opened on path; w_ok is       *)
(* whether that second fopen succeeds                                       *)
sh_cp(k, files, w_ok) ==
    LET path == arg_by_index(k, 0)
        newpath == arg_by_index(k, 0)
    IN IF arg_present(k, 0) /\ arg_present(k, 0)
       THEN IF fopen_r(files, path)
            THEN IF w_ok
                 THEN [k |-> k, files |-> copy_loop(fopen_w(files, path), path, path),
                       code |-> "SHELL_CMD_EXIT"]
                 ELSE [k |-> Emit(k, ERROR_OPENING_DEST_FILE), files |-> files,
                       code |-> "SHELL_CMD_EXIT"]
            ELSE [k |-> Emit(k, ERROR_OPENING_SOURCE_FILE), files |-> files,
                  code |-> "SHELL_CMD_EXIT"]
       ELSE [k |-> Emit(k, ARGUMENT_NOT_SPECIFIED), files |-> files, code |-> "SHELL_CMD_EXIT"]

(* the command matched is cp: run sh_cp and act on its status code *)
RunCp(k, files, w_ok) ==
    LET cc == k.sh.current_command
        r == sh_cp(k, files, w_ok)
    IN [k |-> FreshPrompt(shell_builtins(
                  shell_cmd_exec([r.k EXCEPT !.ev = "command"], cc.cmd, 1, cc.nargs, r.code),
                  r.code, cc.cmd, k.cwd)),
        files |-> r.files]

NewlineCp(E) ==
    /\ Running
    /\ \E c \in Offer(E.inputs \cap {LF}), trap \in FtellTraps :
          LET f == Fetch(Ctx, c, trap)
              p == Finalize(f.k, FALSE)
          IN /\ ~f.stop /\ f.data = LF
             /\ p.sh.current_command.cmd # 0
             /\ p.sh.head_cmd[p.sh.current_command.cmd].cmdfunc = "sh_cp"
             /\ \E w_ok \in BOOLEAN :
                   LET r == RunCp(p, fs, w_ok)
                   IN Update(r.k) /\ fs' = r.files

CP_SOURCE == <<97>>
CP_DEST == <<98>>
CP_MISSING == <<99>>

(* the contents a file of the file system may have *)
CpContents == { <<>>, <<120>>, <<120, 121>>, <<122>> }

(* the file systems: the source exists, the destination may *)
CpFileSystems ==
    [{CP_SOURCE, CP_DEST} -> CpContents] \cup [{CP_SOURCE} -> CpContents]

(* the lines typed: cp with no, one and two paths, and lines that name no command *)
CpLines ==
    { CP_NAME,
      CP_NAME \o <<SPACE>> \o CP_SOURCE,
      CP_NAME \o <<SPACE>> \o CP_SOURCE \o <<SPACE>> \o CP_DEST,
      CP_NAME \o <<SPACE>> \o CP_DEST \o <<SPACE>> \o CP_SOURCE,
      CP_NAME \o <<SPACE>> \o CP_SOURCE \o <<SPACE>> \o CP_SOURCE,
      CP_NAME \o <<SPACE>> \o CP_MISSING \o <<SPACE>> \o CP_DEST,
      CP_NAME \o <<SPACE>> \o CP_SOURCE \o <<SPACE>> \o CP_MISSING,
      <<>>, CP_MISSING, FILE_PATH }

InitCp ==
    \E line \in CpLines :
        Furnish(Replay(Fresh(LINE_BUFFER_SIZE,
                             RegisterAll(<<>>, <<Descriptor(CP_NAME, "sh_cp")>>),
                             <<>>, FALSE), line),
                FileContents, CpFileSystems)

NextCp ==
    \/ NewlineTrap(LineEnv)
    \/ NewlineCp(LineEnv)
    \/ NewlineStat(LineEnv)
    \/ NewlineUnknown(LineEnv)

SpecCp == InitCp /\ [][NextCp]_vars

(* this step ran sh_cp with the two paths from and to *)
CpRan(from, to) ==
    /\ Running
    /\ ev' = "command"
    /\ calls'[Len(calls')].cmdfunc = "sh_cp"
    /\ calls'[Len(calls')].nargs = 2
    /\ calls'[Len(calls')].args = <<from, to>>

(* C32: cp file newfile with two distinct existing paths leaves newfile      *)
(* holding what file held and file as it was.                               *)
C32_CpCopiesSourceToDest ==
    [][\A from, to \in DOMAIN fs :
          (from # to /\ CpRan(from, to))
             => /\ fs'[to] = fs[from]
                /\ fs'[from] = fs[from]]_vars

(* C32, what the code does: the destination is never touched, and the       *)
(* source is cut to length 0 whenever it could be opened for writing.       *)
C32_CpCutsSourceKeepsDest ==
    [][\A from, to \in DOMAIN fs :
          (from # to /\ CpRan(from, to))
             => /\ fs'[to] = fs[to]
                /\ fs'[from] \in {<<>>, fs[from]}
                /\ fs'[from] = fs[from] <=> (Occurs(tx', ERROR_OPENING_DEST_FILE) \/ fs[from] = <<>>)]_vars

C32_SourceCut ==
    /\ ev = "command"
    /\ calls = <<[cmdfunc |-> "sh_cp", nargs |-> 2, args |-> <<CP_SOURCE, CP_DEST>>,
                  code |-> "SHELL_CMD_EXIT"]>>
    /\ fs[CP_SOURCE] = <<>>
    /\ fs[CP_DEST] = <<120, 121>>
    /\ tx = SHELL_NEWLINE \o <<CR, LF>> \o PromptText(shell_cwd)

----------------------------------------------------------------------------
(* C33: in every state the recorded file size is non-zero exactly when a     *)
(* redirected file stream is open and the bytes are read from that file.    *)
C33_RecordedSizeMeansOpenStream ==
    sh.sstat.st_size # 0 <=> (sh.readfs /\ sh.readf = "filefd")

(* C33, for the sessions in which no line named an entry that is not a      *)
(* regular file                                                             *)
C33_ConsistentForRegularFiles ==
    sh.sstat.st_mode \in {"0", "S_IFREG"}
        => (sh.sstat.st_size # 0 <=> (sh.readfs /\ sh.readf = "filefd"))

----------------------------------------------------------------------------
(* the last cell of a char array *)
LastCell(arr) == arr[sizeof(arr) - 1]

(* C34: in every state the last cell of the input buffer is the terminator, *)
(* the end of input is an index of the buffer, every slot of the history    *)
(* ring ends in a terminator and the write cursor of the ring is inside it, *)
(* and no store was made outside the buffer.                                *)
C34_BufferAlwaysTerminated ==
    /\ LastCell(sh.input_buffer) = NUL
    /\ sh.input_index \in DOMAIN sh.input_buffer
    /\ ~Unterminated(sh.input_buffer, 0)
    /\ \A slot \in DOMAIN sh.history :
          /\ LastCell(sh.history[slot]) = NUL
          /\ DOMAIN sh.history[slot] = DOMAIN sh.input_buffer
    /\ DOMAIN sh.history = 0..(SHELL_HISTORY_LENGTH - 1)
    /\ sh.history_save_index \in 0..(SHELL_HISTORY_LENGTH - 1)
    /\ fault # "oob_write"

(* a full line was typed over a recalled one, the ring holding full lines *)
C34_FullLineTyped ==
    /\ ev = "insert"
    /\ sh.input_index = sizeof(sh.input_buffer) - 1
    /\ \E slot \in DOMAIN sh.history :
          strlen_from(sh.history[slot], 0) = sizeof(sh.input_buffer) - 1

----------------------------------------------------------------------------
(* the session after historic_prompt ran with the history index at slot *)
Recalled(s, slot) == historic_prompt([Ctx EXCEPT !.sh = [s EXCEPT !.history_index = slot]])

(* C35: after a non-empty line was finalized against a non-empty registry   *)
(* and the session goes on, recalling the slot the line was stored in loads *)
(* the line as it was typed, quotes and spaces included, and puts cursor    *)
(* and end of input at its length.                                          *)
C35_RecallRoundTripsRawLine ==
    [][(Running /\ NewlineDone' /\ Running' /\ sh.input_index > 0 /\ head_cmd # <<>>)
         => LET k == Recalled(sh', sh.history_save_index)
            IN /\ CStr(k.sh.input_buffer, 0) = LineOf(sh)
               /\ k.sh.cursor_index = Len(LineOf(sh))
               /\ k.sh.input_index = Len(LineOf(sh))
               /\ k.fault = "none"]_vars

(* the quoted line was finalized, cut into tokens in the buffer, and its    *)
(* slot still recalls it whole                                              *)
C35_QuotedLineRecalled ==
    /\ NewlineDone
    /\ ev = "command"
    /\ CollectedArgs(sh) = <<<<99, 109, 100>>, <<97, 32, 98>>, <<99>>>>
    /\ CStr(sh.input_buffer, 0) = <<99, 109, 100>>
    /\ CStr(Recalled(sh, 0).sh.input_buffer, 0) = LINE_QUOTED

----------------------------------------------------------------------------
(* C36: finalizing a line leaves the history index as it was, and from the  *)
(* index -1 the first Up selects slot SHELL_HISTORY_LENGTH-1 and k further  *)
(* Ups slot SHELL_HISTORY_LENGTH-1-k, wherever the write cursor of the ring *)
(* stands.                                                                  *)
C36_ReadIndexIndependentOfWrites ==
    /\ [][(Running /\ NewlineDone') => sh'.history_index = sh.history_index]_vars
    /\ []((Running /\ sh.history_index = -1)
            => \A k \in 0..(SHELL_HISTORY_LENGTH - 1) :
                  UpTimes(Ctx, k + 1).sh.history_index = SHELL_HISTORY_LENGTH - 1 - k)

(* a line was finalized while the first slot was selected, and it went to   *)
(* the last slot                                                            *)
C36_FinalizedUnderSelection ==
    /\ NewlineDone
    /\ sh.history_index = 0
    /\ RecentSlot(sh) = SHELL_HISTORY_LENGTH - 1
    /\ sh.history[RecentSlot(sh)][0] # NUL

----------------------------------------------------------------------------
(* Sessions of a server whose registry grows: commands are registered while *)
(* a session runs, and further sessions start.  sh is the session followed; *)
(* a session that starts takes its place.                                   *)

MaxRegistered == 3

(* streams that sessions which ended may have left open *)
MaxLeaked == 1

(* the descriptors registered while sessions run *)
LateDescriptors == { Descriptor(<<98>>, "sh_b"), Descriptor(<<97>>, "sh_a2") }

(* the registries the server has when the first session starts *)
EarlyRegistrations == { <<>>, <<Descriptor(<<97>>, "sh_a1")>> }

(* what the peer of a session typed before its first NEWLINE *)
RegistryLines == { <<>>, <<97>>, <<98>>, FILE_PATH }

InitRegistry ==
    \E regs \in EarlyRegistrations, line \in RegistryLines :
        Resume(Replay(Fresh(LINE_BUFFER_SIZE, RegisterAll(<<>>, regs), <<>>, FALSE), line),
               FileContents)

(* the context of the first loop iteration of a session that starts in the  *)
(* running server: the instance is new, the streams the process has open    *)
(* stay open                                                                *)
Started(size, getcwd) ==
    [Fresh(size, head_cmd, getcwd, FALSE) EXCEPT !.fopen = fopen]

(* register_command on the server while the session runs; the descriptor is *)
(* one that is not linked into the list yet                                 *)
RegisterLate ==
    /\ Len(head_cmd) < MaxRegistered
    /\ \E cmd \in LateDescriptors :
          /\ \A i \in DOMAIN head_cmd : head_cmd[i] # cmd
          /\ head_cmd' = register_command(head_cmd, cmd)
    /\ UNCHANGED <<sh, shell_cwd, inject, file, fpos, fopen, term, rx, tx, calls, ev,
                   typed, fault, threads, fs, loop>>

(* shell_instance_thread for a new connection: the instance is built from   *)
(* the server's registry head of this moment, and its peer types a line     *)
SessionStart ==
    /\ fopen <= MaxLeaked
    /\ \E line \in RegistryLines :
          LET k == Replay(Started(LINE_BUFFER_SIZE, <<>>), line)
          IN Commit([k EXCEPT !.ev = "start"])

NextRegistry ==
    \/ RegisterLate
    \/ SessionStart
    \/ NewlineTrap(LineEnv)
    \/ NewlineCommand(LineEnv)
    \/ NewlineStat(LineEnv)
    \/ NewlineUnknown(LineEnv)

SpecRegistry == InitRegistry /\ [][NextRegistry]_vars

(* the names of a list of descriptors from its head on, each after a line   *)
(* break                                                                    *)
RECURSIVE NamesFromHead(_)
NamesFromHead(reg) ==
    IF reg = <<>> THEN <<>>
    ELSE SHELL_NEWLINE \o Head(reg).name \o NamesFromHead(Tail(reg))

(* a step of the session followed, as opposed to a registration or a start *)
SessionStep == head_cmd' = head_cmd /\ ev' # "start"

(* C37: a session works on the list of descriptors the server had when the  *)
(* session started.  A registration changes the server's list and nothing   *)
(* of the session; a step of the session changes neither list; the handler  *)
(* a NEWLINE runs belongs to a descriptor of the session's list and has the *)
(* name typed; the print-commands output is the names of the session's      *)
(* list; and a session that starts has the server's list of that moment.    *)
C37_SessionKeepsCapturedRegistry ==
    /\ [][head_cmd' # head_cmd => sh' = sh]_vars
    /\ [][SessionStep => sh'.head_cmd = sh.head_cmd]_vars
    /\ [][(head_cmd' = head_cmd /\ ev' = "start") => sh'.head_cmd = head_cmd]_vars
    /\ [][(SessionStep /\ Running /\ ev' = "command")
             => /\ \E i \in DOMAIN sh.head_cmd :
                      /\ calls'[1].cmdfunc = sh.head_cmd[i].cmdfunc
                      /\ sh.head_cmd[i].name = CStr(sh'.input_buffer, 0)
                /\ ReturnedStatus = "SHELL_CMD_PRINT_CMDS"
                      => tx' = SHELL_NEWLINE \o SHELL_HELP_STR
                                 \o NamesFromHead(sh.head_cmd)
                                 \o <<CR, LF>> \o PromptText(shell_cwd')]_vars
    /\ [][(SessionStep /\ Running /\ NewlineDone'
             /\ \A i \in DOMAIN sh.head_cmd :
                   sh.head_cmd[i].name # CStr(sh'.input_buffer, 0))
             => ev' # "command" /\ calls' = <<>>]_vars

(* the session typed the name of a command registered after it started and  *)
(* no handler ran; the server's list holds that command                     *)
C37_LateCommandNotMatched ==
    /\ ev = "unknown"
    /\ CStr(sh.input_buffer, 0) = <<98>>
    /\ \E i \in DOMAIN head_cmd : head_cmd[i].name = <<98>>
    /\ \A i \in DOMAIN sh.head_cmd : sh.head_cmd[i].name # <<98>>
    /\ calls = <<>>

----------------------------------------------------------------------------
(* Sessions that follow one another: when the session has ended, the next   *)
(* connection gets a session of its own.                                    *)

(* shell_instance_thread for the connection after a session that ended; a   *)
(* stream the ended session left open stays open in the process             *)
SessionRestart ==
    /\ sh.exitflag
    /\ fault = "none"
    /\ fopen <= MaxLeaked
    /\ \E getcwd \in FileEnv.cwds :
          Commit(Started(SHELL_CMD_BUFFER_SIZE, getcwd))

NextRestart ==
    \/ SessionRestart
    \/ ReadEnd(FileEnv)
    \/ KeyEscape(FileEnv)
    \/ KeyPrintable(FileEnv)
    \/ NewlineTrap(FileEnv)
    \/ NewlineCommand(FileEnv)
    \/ NewlineStat(FileEnv)
    \/ NewlineUnknown(FileEnv)

SpecRestart == InitFile /\ [][NextRestart]_vars

(* the instance s holds no line, no history and no redirection *)
FreshState(s) ==
    /\ \A i \in DOMAIN s.input_buffer : s.input_buffer[i] = NUL
    /\ s.cursor_index = 0
    /\ s.input_index = 0
    /\ \A slot \in DOMAIN s.history :
          \A i \in DOMAIN s.history[slot] : s.history[slot][i] = NUL
    /\ s.history_index = -1
    /\ s.history_save_index = 0
    /\ ~s.exitflag
    /\ s.readf = "connfd"
    /\ s.writef = "connfd"
    /\ ~s.readfs
    /\ s.savereadf = "-1"
    /\ s.sstat.st_size = 0

(* C38: a session that starts, the first of the server or the one after a   *)
(* session that ended, has an empty buffer, cursor and end of input 0, an   *)
(* empty history ring with index -1 and write cursor 0, the exit flag       *)
(* unset, the connection as byte source and output sink and no redirection; *)
(* no byte is held back for it, and nothing was written or run for it.      *)
C38_NewSessionStartsFresh ==
    /\ [](ev = "start" => (FreshState(sh) /\ inject = NUL /\ tx = <<>> /\ calls = <<>>))
    /\ [][(sh.exitflag /\ ~sh'.exitflag)
             => (ev' = "start" /\ FreshState(sh') /\ sh'.head_cmd = head_cmd)]_vars

(* a session started after one that ended in the middle of a file: the      *)
(* stream of the ended session is still open, the new instance is fresh     *)
C38_StartedAfterEndedSession ==
    /\ ev = "start"
    /\ fopen = 1
    /\ FreshState(sh)

----------------------------------------------------------------------------
(* The for loops of prompt() followed iteration by iteration, in sessions   *)
(* whose input buffer has more cells than the counter i has values.  The    *)
(* peer typed a line, moved the cursor left, and sends one more key; of the *)
(* bytes the handlers write, the LEFT sequences are counted.                *)

WIDE_BUFFER_SIZE == 260

(* the lengths of the typed line, and the places of the cursor in it *)
WideLengths == {2, 3, 254, 255, 256, 257, 258}
WideCursors(n) == {c \in {0, 1, 2, 253, 254, 255, 256, n - 1, n} : c >= 0 /\ c <= n}

(* the letter the peer typed at place j of the line, and the byte it sends *)
WideLetter(j) == 97 + (j % 26)
WIDE_DATA == 65

(* the instance after the peer typed n letters, each at the end of the line, *)
(* and pressed LEFT n - c times                                              *)
WideInstance(n, c) ==
    [NewInstance(WIDE_BUFFER_SIZE, <<>>) EXCEPT
        !.input_buffer = [j \in 0..(WIDE_BUFFER_SIZE - 1) |->
                             IF j < n THEN WideLetter(j) ELSE NUL],
        !.input_index = n,
        !.cursor_index = c]

InitWide ==
    \E n \in WideLengths :
        \E c \in WideCursors(n) :
            Resume([Fresh(WIDE_BUFFER_SIZE, <<>>, <<>>, FALSE)
                       EXCEPT !.sh = WideInstance(n, c)], FileContents)

LoopFrame ==
    UNCHANGED <<head_cmd, shell_cwd, inject, file, fpos, fopen, term, tx, calls, typed,
                threads, fs>>

(* a printable byte arrived and the buffer has room: i = input_index *)
InsertBegin ==
    /\ Running /\ loop.pc = "idle" /\ ev = "start"
    /\ HasRoom(sh)
    /\ loop' = [pc |-> "shift_right", i |-> U8(sh.input_index), arrows |-> 0]
    /\ ev' = "insert"
    /\ rx' = <<WIDE_DATA>>
    /\ UNCHANGED <<sh, fault>>
    /\ LoopFrame

(* for(i = input_index; i > cursor_index; i--) input_buffer[i] = input_buffer[i-1]; *)
(* after the loop the byte is stored, both indices advance, the line is     *)
(* terminated, and the cursor loop starts with i = input_index              *)
ShiftRightStep ==
    /\ Running /\ loop.pc = "shift_right"
    /\ IF loop.i > sh.cursor_index
       THEN /\ sh' = [sh EXCEPT !.input_buffer[loop.i] = sh.input_buffer[loop.i - 1]]
            /\ loop' = [loop EXCEPT !.i = U8(@ - 1)]
       ELSE LET stored == [sh EXCEPT !.input_buffer[sh.cursor_index] = rx[1],
                                     !.cursor_index = U16(@ + 1),
                                     !.input_index = U16(@ + 1)]
            IN /\ sh' = [stored EXCEPT !.input_buffer[stored.input_index] = NUL]
               /\ loop' = [pc |-> "cursor_back", i |-> U8(stored.input_index),
                           arrows |-> 0]
    /\ UNCHANGED <<ev, rx, fault>>
    /\ LoopFrame

(* BACKSPACE with the cursor after the first byte: both indices step back,   *)
(* i = cursor_index                                                         *)
BackspaceBegin ==
    /\ Running /\ loop.pc = "idle" /\ ev = "start"
    /\ BackspaceGuard(sh)
    /\ sh' = [sh EXCEPT !.input_index = U16(@ - 1), !.cursor_index = U16(@ - 1)]
    /\ loop' = [pc |-> "shift_left", i |-> U8(sh'.cursor_index), arrows |-> 0]
    /\ ev' = "backspace"
    /\ rx' = <<BACKSPACE>>
    /\ UNCHANGED fault
    /\ LoopFrame

(* DELETE with the cursor before the end: the end of input steps back,      *)
(* i = cursor_index                                                         *)
DeleteBegin ==
    /\ Running /\ loop.pc = "idle" /\ ev = "start"
    /\ DeleteGuard(sh)
    /\ sh' = [sh EXCEPT !.input_index = U16(@ - 1)]
    /\ loop' = [pc |-> "shift_left", i |-> U8(sh.cursor_index), arrows |-> 0]
    /\ ev' = "delete"
    /\ rx' = <<ESC, CSI, KEY_3, KEY_TILDE>>
    /\ UNCHANGED fault
    /\ LoopFrame

(* for(i = cursor_index; i < input_index; i++) input_buffer[i] = input_buffer[i+1]; *)
(* when the increment brings i back to the value the loop started with, the *)
(* condition has held for every value of i and the loop does not end.       *)
(* After the loop the blank and the terminators are stored and the cursor   *)
(* loop starts with i = input_index                                         *)
ShiftLeftStep ==
    /\ Running /\ loop.pc = "shift_left"
    /\ IF loop.i < sh.input_index
       THEN /\ sh' = [sh EXCEPT !.input_buffer[loop.i] = sh.input_buffer[loop.i + 1]]
            /\ loop' = [loop EXCEPT !.i = U8(@ + 1)]
            /\ fault' = IF U8(loop.i + 1) = U8(sh.cursor_index)
                        THEN "endless_loop" ELSE fault
       ELSE /\ sh' = [sh EXCEPT !.input_buffer[sh.input_index + 1] = NUL,
                                !.input_buffer[sh.input_index] = NUL]
            /\ loop' = [pc |-> "cursor_back", i |-> U8(sh.input_index), arrows |-> 0]
            /\ fault' = fault
    /\ UNCHANGED <<ev, rx>>
    /\ LoopFrame

(* for(i = input_index; i > cursor_index; i--) write(SHELL_LEFTARROW) *)
CursorBackStep ==
    /\ Running /\ loop.pc = "cursor_back"
    /\ loop' = IF loop.i > sh.cursor_index
               THEN [loop EXCEPT !.i = U8(@ - 1), !.arrows = @ + 1]
               ELSE [loop EXCEPT !.pc = "done"]
    /\ UNCHANGED <<sh, ev, rx, fault>>
    /\ LoopFrame

NextWide ==
    \/ InsertBegin
    \/ ShiftRightStep
    \/ BackspaceBegin
    \/ DeleteBegin
    \/ ShiftLeftStep
    \/ CursorBackStep

SpecWide == InitWide /\ [][NextWide]_vars

(* the line of s is the typed letters with WIDE_DATA put in before the cursor *)
InsertedExactly(s) ==
    LET c == s.cursor_index - 1
    IN /\ \A j \in 0..(s.input_index - 1) :
             s.input_buffer[j] = IF j < c THEN WideLetter(j)
                                 ELSE IF j = c THEN WIDE_DATA ELSE WideLetter(j - 1)
       /\ s.input_buffer[s.input_index] = NUL

(* the line of s is the typed letters without the one at the cursor *)
RemovedExactly(s) ==
    /\ \A j \in 0..(s.input_index - 1) :
          s.input_buffer[j] = IF j < s.cursor_index THEN WideLetter(j)
                              ELSE WideLetter(j + 1)
    /\ s.input_buffer[s.input_index] = NUL

(* the handler is through: the line is the edited one and the cursor was    *)
(* taken back over the bytes after it                                       *)
EditedExactly ==
    loop.pc = "done"
       => /\ ev = "insert" => InsertedExactly(sh)
          /\ ev \in {"backspace", "delete"} => RemovedExactly(sh)
          /\ loop.arrows = sh.input_index - sh.cursor_index

(* C39: for every cursor and end of input a buffer of any capacity lets the *)
(* session reach, the shift loop and the cursor loop of insert, backspace   *)
(* and delete end, the bytes between cursor and end of input are moved by   *)
(* one place and no other byte changes, and the cursor is taken back by     *)
(* end of input - cursor places.                                            *)
C39_LoopsExactForEveryCapacity ==
    /\ fault # "endless_loop"
    /\ EditedExactly

(* what the code does: the same while the end of input is a value of the    *)
(* 8-bit counter; beyond it the shift-left loop does not end                *)
C39_LoopsExactWithinCounterRange ==
    /\ fault = "endless_loop" => sh.input_index > 255
    /\ sh.input_index <= 255 => EditedExactly

====
